---- MODULE Spec2Model ----
(***************************************************************************)
(* A model of the lox-rs tree-walking interpreter: the static Resolver     *)
(* (src/interpreter/resolver.rs), the Environment chain                    *)
(* (src/interpreter/environment.rs), the runtime object model              *)
(* (src/interpreter/src/function.rs, src/interpreter/src/class.rs) and the *)
(* evaluator (src/interpreter/src/interpreter.rs), driven by run_code      *)
(* (src/interpreter/lib.rs).                                               *)
(*                                                                         *)
(* The lexer and the parser are not modelled: a program is given as the    *)
(* AST the parser builds for it.  Rc<RefCell<Environment>> and             *)
(* Rc<RefCell<Instance>> are indices into two heaps (sequences), so that   *)
(* sharing by reference and copying are different things in the model.     *)
(* Numbers are integers (the programs use no fractions), and of the binary *)
(* operators Divide and Modulo are left out.                               *)
(***************************************************************************)
EXTENDS Integers, Sequences, FiniteSets, TLC

VARIABLES
    prog,       \* the program run_code is given: an index into the programs below
    phase,      \* position of run_code: "resolve", "interpret", "done"; "cut": MaxSteps hit
    ri,         \* index of the statement resolve_stmts visits next (top level)
    resolver,   \* the Resolver: scopes, state, and the distances it has written
    errors,     \* the Vec<Error> resolve_stmts collects at top level
    ii,         \* index of the statement interpret visits next (top level)
    interp,     \* the Interpreter: env, heaps, distances, state, stdout
    last_val,   \* interpret's last_val (a sequence of length 0 or 1)
    result,     \* what run_code returned (phase = "done")
    first_pass, \* the distance map a first resolver pass left (SpecTwice)
    probe       \* a direct call of Environment::ancestor: its inputs and result

vars == <<prog, phase, ri, resolver, errors, ii, interp, last_val, result, first_pass, probe>>

\* Bound of the model: the number of loop iterations and calls one run may make.
MaxSteps == 8

-----------------------------------------------------------------------------
(* Maps (HashMap<K, V>) as functions with a finite domain.                 *)

EmptyMap == [k \in {} |-> 0]

Has(m, k) == k \in DOMAIN m

Put(m, k, v) == [x \in (DOMAIN m) \cup {k} |-> IF x = k THEN v ELSE m[x]]

-----------------------------------------------------------------------------
(* Tokens, errors and values.                                              *)

Token(token_type, pos) == [token_type |-> token_type, line |-> 1, start |-> pos, end |-> pos + 1]

NoErr == [error_type |-> "None"]

Error(token, error_type) == [error_type |-> error_type, token |-> token]

IsErr(e) == e.error_type # "None"

Null == [t |-> "Null"]

Number(n) == [t |-> "Number", n |-> n]

String(s) == [t |-> "String", str |-> s]

Boolean(b) == [t |-> "Boolean", b |-> b]

Instance(id) == [t |-> "Instance", id |-> id]

Native == [t |-> "Function", fn |-> "Native", arity |-> 0]

Value_new(literal) == literal

to_bool(v) ==
    CASE v.t = "String" -> Len(v.str) > 0
      [] v.t = "Boolean" -> v.b
      [] v.t = "Null" -> FALSE
      [] OTHER -> TRUE

VarRef_to_string(token, name) == <<token.line, token.start, token.end, name>>

-----------------------------------------------------------------------------
(* Environment: a frame is [values, enclosing]; enclosing = 0 is None.     *)
(* heap[id] is the frame an Rc<RefCell<Environment>> points to.            *)

Environment_new == [values |-> EmptyMap, enclosing |-> 0]

Environment_from(env) == [values |-> EmptyMap, enclosing |-> env]

\* Variant, not the code: the insert goes to the enclosing frame when that frame
\* already binds the name.
define_or_update_outer(heap, env, name, value) ==
    LET target == IF heap[env].enclosing # 0 /\ Has(heap[heap[env].enclosing].values, name)
                  THEN heap[env].enclosing ELSE env
    IN  [heap |-> [heap EXCEPT ![target].values = Put(@, name, value)],
         prev |-> IF Has(heap[target].values, name) THEN <<heap[target].values[name]>>
                  ELSE <<>>]

\* the heap after inserting, and the previous value (a sequence of length 0 or 1)
define_or_update(heap, env, name, value) ==
    [heap |-> [heap EXCEPT ![env].values = Put(@, name, value)],
     prev |-> IF Has(heap[env].values, name) THEN <<heap[env].values[name]>> ELSE <<>>]

get(heap, env, name) ==
    IF Has(heap[env].values, name) THEN <<heap[env].values[name]>> ELSE <<>>

RECURSIVE ancestor_walk(_, _, _)
ancestor_walk(heap, env, n) ==
    IF n = 0 THEN env
    ELSE IF heap[env].enclosing # 0 THEN ancestor_walk(heap, heap[env].enclosing, n - 1)
    ELSE ancestor_walk(heap, env, n - 1)

\* 0 stands for the panic of expect("Trying to access environment that doesn't exist")
ancestor(heap, env, distance) ==
    IF heap[env].enclosing = 0 THEN 0
    ELSE ancestor_walk(heap, heap[env].enclosing, IF distance > 1 THEN distance - 1 ELSE 0)

\* [panic, heap, prev]
assign_at(heap, env, name, value, distance) ==
    IF distance > 0
    THEN LET a == ancestor(heap, env, distance) IN
         IF a = 0 THEN [panic |-> TRUE, heap |-> heap, prev |-> <<>>]
         ELSE LET d == define_or_update(heap, a, name, value) IN
              [panic |-> FALSE, heap |-> d.heap, prev |-> d.prev]
    ELSE LET d == define_or_update(heap, env, name, value) IN
         [panic |-> FALSE, heap |-> d.heap, prev |-> d.prev]

\* [panic, val]
get_at(heap, env, name, distance) ==
    IF distance = 0 THEN [panic |-> FALSE, val |-> get(heap, env, name)]
    ELSE LET a == ancestor(heap, env, distance) IN
         IF a = 0 THEN [panic |-> TRUE, val |-> <<>>]
         ELSE [panic |-> FALSE, val |-> get(heap, a, name)]

RECURSIVE get_deep(_, _, _)
get_deep(heap, env, name) ==
    IF Has(heap[env].values, name) THEN <<heap[env].values[name]>>
    ELSE IF heap[env].enclosing # 0 THEN get_deep(heap, heap[env].enclosing, name)
    ELSE <<>>

-----------------------------------------------------------------------------
(* State: the evaluator's control-flow flags.                              *)

State_new == [should_break |-> FALSE, should_continue |-> FALSE,
              should_return |-> FALSE, inside_call |-> FALSE]

will_return(state) ==
    IF state.should_return /\ state.inside_call
    THEN [state |-> [state EXCEPT !.should_return = FALSE], ret |-> TRUE]
    ELSE [state |-> state, ret |-> FALSE]

enter_call(state) == [state EXCEPT !.inside_call = TRUE]

exit_call(state) == [state EXCEPT !.should_return = FALSE, !.inside_call = FALSE]

will_break(state) ==
    [state |-> [state EXCEPT !.should_break = FALSE], ret |-> state.should_break]

will_continue(state) ==
    [state |-> [state EXCEPT !.should_continue = FALSE], ret |-> state.should_continue]

-----------------------------------------------------------------------------
(* AST.  Expressions carry e, statements carry s; the fields are those of  *)
(* enum Expr and enum Stmt.  An Option<X> is a sequence of length 0 or 1.  *)

Literal(value) == [e |-> "Literal", value |-> value]

Var(name, pos) == [e |-> "Var", name |-> name, token |-> Token("Identifier", pos)]

Assign(name, expr, pos) ==
    [e |-> "Assign", name |-> name, expr |-> expr, token |-> Token("Identifier", pos)]

Binary(left, op, right) ==
    [e |-> "Binary", left |-> left, operator |-> Token(op, 0), right |-> right]

Unary(op, expr) == [e |-> "Unary", operator |-> Token(op, 0), expr |-> expr]

Grouping(expr) == [e |-> "Grouping", expr |-> expr]

Logical(left, op, right) ==
    [e |-> "Logical", left |-> left, operator |-> Token(op, 0), right |-> right]

Call(callee, arguments, pos) ==
    [e |-> "Call", callee |-> callee, token |-> Token("CloseParenthesis", pos),
     arguments |-> arguments]

Closure(params, body, pos) ==
    [e |-> "Closure", params |-> params, body |-> body, name |-> "closure",
     token |-> Token("Bar", pos)]

Get(expr, name, pos) ==
    [e |-> "Get", name |-> name, token |-> Token("Identifier", pos), expr |-> expr]

Set(obj, name, value, pos) ==
    [e |-> "Set", name |-> name, token |-> Token("Identifier", pos), value |-> value,
     obj |-> obj]

This(pos) == [e |-> "This", token |-> Token("This", pos)]

Super(method_name, pos) ==
    [e |-> "Super", token |-> Token("Identifier", pos), method_name |-> method_name]

PrintStmt(expr) == [s |-> "Print", expr |-> expr]

ExprStmt(expr) == [s |-> "Expr", expr |-> expr]

VarStmt(name, value) == [s |-> "Var", name |-> name, value |-> value]

Block(stmts) == [s |-> "Block", stmts |-> stmts]

If(condition, then_body, else_body) ==
    [s |-> "If", condition |-> condition, then_body |-> then_body, else_body |-> else_body]

While(condition, body) == [s |-> "While", condition |-> condition, body |-> body]

Break(pos) == [s |-> "Break", token |-> Token("Break", pos)]

Continue(pos) == [s |-> "Continue", token |-> Token("Continue", pos)]

\* parser.rs function_statement: the body is one Block statement
Function(name, params, stmts, pos) ==
    [s |-> "Function", name |-> name, params |-> params, body |-> <<Block(stmts)>>,
     token |-> Token("Identifier", pos)]

Class(name, superclass, members, pos) ==
    [s |-> "Class", name |-> name, token |-> Token("Identifier", pos),
     members |-> members, superclass |-> superclass]

Return(value, pos) == [s |-> "Return", value |-> value, token |-> Token("Return", pos)]

-----------------------------------------------------------------------------
(* The Interpreter.  I is the struct Interpreter {env, distances, state}   *)
(* together with what it reaches: the two heaps and stdout (out).  I.err   *)
(* is the Err a Result carries (NoErr for Ok); every `?` of the source is  *)
(* a test of Failed.  Instrumentation that the code does not have:         *)
(*   steps   loop iterations and calls made so far (bounded by MaxSteps),  *)
(*   raised  every Error value constructed, in order,                      *)
(*   refs    for every variable read or write evaluated: its name, the     *)
(*           distance the distance map gives it (-1: none) and the number  *)
(*           of frames between the current frame and the nearest frame     *)
(*           that binds the name (-1: none),                               *)
(*   env_moved  whether some block or function body returned Ok with env   *)
(*           another frame than when it started.                           *)

Ok(I, val) == [I |-> I, val |-> val]

Fail(I, token, error_type) ==
    [I |-> [I EXCEPT !.err = Error(token, error_type),
                     !.raised = Append(@, Error(token, error_type))],
     val |-> Null]

\* a panic (expect/unwrap on None) ends the process
Panic(I) == [I |-> [I EXCEPT !.err = [error_type |-> "Panic"]], val |-> Null]

\* the run is cut: it made MaxSteps iterations and calls and is still running
Cut(I) == [I |-> [I EXCEPT !.err = [error_type |-> "Diverged"]], val |-> Null]

Failed(r) == IsErr(r.I.err)

Tick(I) == [I EXCEPT !.steps = @ + 1]

RECURSIVE frames_between(_, _, _)
frames_between(heap, env, name) ==
    IF Has(heap[env].values, name) THEN 0
    ELSE IF heap[env].enclosing = 0 THEN -1
    ELSE LET d == frames_between(heap, heap[env].enclosing, name) IN
         IF d = -1 THEN -1 ELSE d + 1

LogRef(I, name, token, distance) ==
    [I EXCEPT !.refs = @ \cup {[name |-> name, pos |-> token.start,
                                distance |-> IF distance = <<>> THEN -1 ELSE distance[1],
                                actual |-> frames_between(I.heap, I.env, name)]}]

Interpreter_new ==
    [env |-> 2,
     heap |-> << [values |-> Put(EmptyMap, "clock", Native), enclosing |-> 0],
                 Environment_from(1) >>,
     insts |-> <<>>,
     distances |-> EmptyMap,
     state |-> State_new,
     out |-> <<>>,
     err |-> NoErr,
     steps |-> 0,
     raised |-> <<>>,
     refs |-> {},
     env_moved |-> FALSE]

get_distance(I, token, name) ==
    IF Has(I.distances, VarRef_to_string(token, name))
    THEN <<I.distances[VarRef_to_string(token, name)]>> ELSE <<>>

\* Variant, not the code: a site that is already in the map gets the new depth
\* added to the one it has.
Interpreter_resolve_distance_add(distances, token, name, depth) ==
    LET key == VarRef_to_string(token, name) IN
    Put(distances, key, IF Has(distances, key) THEN distances[key] + depth ELSE depth)

Interpreter_resolve_distance(distances, token, name, depth) ==
    Put(distances, VarRef_to_string(token, name), depth)

lookup_variable(name, token, I) ==
    LET distance == get_distance(I, token, name)
        var == get_at(I.heap, I.env, name, IF distance = <<>> THEN 0 ELSE distance[1])
        J == LogRef(I, name, token, distance)
    IN  IF var.panic THEN Panic(J)
        ELSE IF var.val # <<>> THEN Ok(J, var.val[1])
        ELSE Fail(J, token, "UndefinedVariable")

lookup_deep(name, token, I) ==
    LET v == get_deep(I.heap, I.env, name)
    IN  IF v = <<>> THEN Fail(I, token, "UndefinedVariable") ELSE Ok(I, v[1])

to_string(I, v) ==
    CASE v.t = "String" -> v.str
      [] v.t = "Number" -> ToString(v.n)
      [] v.t = "Boolean" -> IF v.b THEN "true" ELSE "false"
      [] v.t = "Function" -> IF v.fn = "Native" THEN "<native function>"
                             ELSE "<" \o v.name \o " function>"
      [] v.t = "Null" -> "null"
      [] v.t = "Class" -> v.name
      [] v.t = "Instance" -> I.insts[v.id].class.name \o " instance"

binary_op(operator, a, b, I) ==
    LET op == operator.token_type
        nn == a.t = "Number" /\ b.t = "Number"
        ss == a.t = "String" /\ b.t = "String"
        bb == a.t = "Boolean" /\ b.t = "Boolean"
        zz == a.t = "Null" /\ b.t = "Null"
        wrong == Fail(I, operator, "WrongType")
    IN  CASE op = "Plus" -> IF nn THEN Ok(I, Number(a.n + b.n))
                            ELSE IF ss THEN Ok(I, String(a.str \o b.str)) ELSE wrong
          [] op = "Minus" -> IF nn THEN Ok(I, Number(a.n - b.n)) ELSE wrong
          [] op = "Star" -> IF nn THEN Ok(I, Number(a.n * b.n)) ELSE wrong
          [] op = "BangEquals" ->
                IF nn THEN Ok(I, Boolean(a.n # b.n))
                ELSE IF ss THEN Ok(I, Boolean(a.str # b.str))
                ELSE IF bb THEN Ok(I, Boolean(a.b # b.b))
                ELSE IF zz THEN Ok(I, Boolean(FALSE)) ELSE wrong
          [] op = "Compare" ->
                IF nn THEN Ok(I, Boolean(a.n = b.n))
                ELSE IF ss THEN Ok(I, Boolean(a.str = b.str))
                ELSE IF bb THEN Ok(I, Boolean(a.b = b.b))
                ELSE IF zz THEN Ok(I, Boolean(TRUE)) ELSE wrong
          [] op = "Less" -> IF nn THEN Ok(I, Boolean(a.n < b.n))
                            ELSE IF ss THEN Ok(I, Boolean(Len(a.str) < Len(b.str))) ELSE wrong
          [] op = "LessEquals" -> IF nn THEN Ok(I, Boolean(a.n <= b.n))
                            ELSE IF ss THEN Ok(I, Boolean(Len(a.str) <= Len(b.str))) ELSE wrong
          [] op = "Greater" -> IF nn THEN Ok(I, Boolean(a.n > b.n))
                            ELSE IF ss THEN Ok(I, Boolean(Len(a.str) > Len(b.str))) ELSE wrong
          [] op = "GreaterEquals" -> IF nn THEN Ok(I, Boolean(a.n >= b.n))
                            ELSE IF ss THEN Ok(I, Boolean(Len(a.str) >= Len(b.str))) ELSE wrong

RECURSIVE evaluate(_, _), accept(_, _)

(* Class and Instance                                                       *)

RECURSIVE find_method(_, _)
find_method(class, name) ==
    IF Has(class.methods, name) THEN <<class.methods[name]>>
    ELSE IF class.superclass # <<>> THEN find_method(class.superclass[1], name)
    ELSE <<>>

bind(func, instance) ==
    IF func.fn = "Standard" THEN [func EXCEPT !.this = instance] ELSE func

get_super(inst) == inst.class.superclass

\* Rc::new(RefCell::new(..)): the instance heap with one more cell
NewInstance(I, inst) == [I EXCEPT !.insts = Append(@, inst)]

Instance_get(id, name, token, I) ==
    LET self == I.insts[id]
        fun == find_method(self.class, name)
    IN  IF Has(self.properties, name) THEN Ok(I, self.properties[name])
        ELSE IF fun = <<>> THEN Fail(I, token, "PropertyDoesntExist")
        ELSE Ok(NewInstance(I, self), bind(fun[1], Len(I.insts) + 1))

\* Variant, not the code: the instances share one property map.
Instance_set_shared(id, name, value, I) ==
    [I EXCEPT !.insts = [i \in DOMAIN @ |->
                            [@[i] EXCEPT !.properties = Put(@, name, value)]]]

Instance_set(id, name, value, I) ==
    [I EXCEPT !.insts[id].properties = Put(@, name, value)]

Function_Standard(params, body, name, token, closure) ==
    [t |-> "Function", fn |-> "Standard", params |-> params, body |-> body,
     name |-> name, token |-> token, this |-> 0, closure |-> closure]

\* [I, properties, methods]
RECURSIVE Class_new_members(_, _, _, _, _)
Class_new_members(members, i, properties, methods, I) ==
    LET member == members[i]
        insert(r) ==
            IF Failed(r) THEN [I |-> r.I, properties |-> properties, methods |-> methods]
            ELSE Class_new_members(members, i + 1, Put(properties, member.name, r.val),
                                   methods, r.I)
    IN  IF i > Len(members) THEN [I |-> I, properties |-> properties, methods |-> methods]
        ELSE CASE member.s = "Var" ->
                    insert(evaluate(IF member.value = <<>> THEN Literal(Null)
                                    ELSE member.value[1], I))
               [] member.s = "Function" ->
                    Class_new_members(members, i + 1, properties,
                        Put(methods, member.name,
                            Function_Standard(member.params, member.body, member.name,
                                              member.token, I.env)),
                        I)
               [] OTHER -> Class_new_members(members, i + 1, properties, methods, I)

Class_new(name, members, superclass, I) ==
    LET built(m) ==
            IF IsErr(m.I.err) THEN [I |-> m.I, val |-> Null]
            ELSE Ok(m.I, [t |-> "Class", name |-> name, properties |-> m.properties,
                          methods |-> m.methods, superclass |-> superclass])
    IN  built(Class_new_members(members, 1, EmptyMap, EmptyMap, I))

(* Interpreter::interpret and execute_block                                 *)

\* Variant, not the code: the loop of interpret does not test should_break.
interpret_check_no_break(state) ==
    LET wc == will_continue(state)
        wr == will_return(wc.state)
    IN  IF wc.ret THEN [state |-> wc.state, brk |-> TRUE]
        ELSE [state |-> wr.state, brk |-> wr.ret]

\* the test at the head of interpret's loop, with the resets its calls make
interpret_check(state) ==
    LET wc == will_continue(state)
        wr == will_return(wc.state)
    IN  IF wc.ret THEN [state |-> wc.state, brk |-> TRUE]
        ELSE IF wr.ret THEN [state |-> wr.state, brk |-> TRUE]
        ELSE [state |-> wr.state, brk |-> wr.state.should_break]

\* one iteration of interpret's loop: [I, last_val, brk]
interpret_step(stmt, last, I) ==
    LET chk == interpret_check(I.state)
        ran(r) == [I |-> r.I, last_val |-> <<r.val>>, brk |-> FALSE]
    IN  IF chk.brk THEN [I |-> [I EXCEPT !.state = chk.state], last_val |-> last, brk |-> TRUE]
        ELSE ran(accept(stmt, [I EXCEPT !.state = chk.state]))

interpret_result(last, I) == Ok(I, IF last = <<>> THEN Null ELSE last[1])

RECURSIVE interpret_loop(_, _, _, _)
interpret_loop(stmts, i, last, I) ==
    LET next(it) ==
            IF it.brk THEN interpret_result(it.last_val, it.I)
            ELSE IF IsErr(it.I.err) THEN [I |-> it.I, val |-> Null]
            ELSE interpret_loop(stmts, i + 1, it.last_val, it.I)
    IN  IF i > Len(stmts) THEN interpret_result(last, I)
        ELSE next(interpret_step(stmts[i], last, I))

interpret(stmts, I) == interpret_loop(stmts, 1, <<>>, I)

\* instrumentation: r is what a block or a function body returned, env the
\* current frame when it started
EnvCheck(env, r) ==
    IF r.I.err = NoErr /\ r.I.env # env THEN [r EXCEPT !.I.env_moved = TRUE] ELSE r

\* Variant, not the code: self.env stays the frame of the block.
execute_block_keep(statements, env, I) == interpret(statements, [I EXCEPT !.env = env])

execute_block(statements, env, I) ==
    LET restore(r) == IF Failed(r) THEN r ELSE Ok([r.I EXCEPT !.env = I.env], r.val)
    IN  restore(interpret(statements, [I EXCEPT !.env = env]))

(* Function::call and Class::call                                           *)

RECURSIVE bind_params(_, _, _, _)
bind_params(values, params, args, i) ==
    IF i > Len(params) THEN values
    ELSE bind_params(Put(values, params[i], args[i]), params, args, i + 1)

Function_arity(func) == IF func.fn = "Native" THEN func.arity ELSE Len(func.params)

\* the bindings of the call frame: this, super, then the parameters
call_frame(func, I, args) ==
    LET s == get_super(I.insts[func.this])
        t == Put(EmptyMap, "this", Instance(func.this))
    IN  bind_params(IF func.this = 0 THEN EmptyMap
                    ELSE IF s = <<>> THEN t ELSE Put(t, "super", s[1]),
                    func.params, args, 1)

\* Variant, not the code: only a call with too few arguments is refused.
Function_call_at_least(func, I, args) ==
    IF func.fn = "Native" THEN Ok(I, Number(100))
    ELSE IF Function_arity(func) > Len(args)
    THEN Fail(I, func.token, "InvalidNumberOfArguments")
    ELSE IF I.steps >= MaxSteps THEN Cut(I)
    ELSE execute_block(func.body, Len(I.heap) + 1,
             [Tick(I) EXCEPT !.heap = Append(@, [values |-> call_frame(func, I, args),
                                                 enclosing |-> func.closure])])

Function_call(func, I, args) ==
    IF func.fn = "Native" THEN Ok(I, Number(100))
    ELSE IF Function_arity(func) # Len(args)
    THEN Fail(I, func.token, "InvalidNumberOfArguments")
    ELSE IF I.steps >= MaxSteps THEN Cut(I)
    ELSE EnvCheck(I.env,
             execute_block(func.body, Len(I.heap) + 1,
                 [Tick(I) EXCEPT !.heap = Append(@, [values |-> call_frame(func, I, args),
                                                     enclosing |-> func.closure])]))

Class_call(class, I, arguments) ==
    LET id == Len(I.insts) + 1
        constructed(r) == IF Failed(r) THEN r ELSE Ok(r.I, Instance(id))
    IN  IF Has(class.methods, "constructor")
        THEN constructed(Function_call(bind(class.methods["constructor"], id),
                 NewInstance(I, [class |-> class, properties |-> class.properties]),
                 arguments))
        ELSE Ok(NewInstance(I, [class |-> class, properties |-> class.properties]),
                Instance(id))

(* impl ExprVisitor<Value> for Interpreter                                  *)

I_visit_binary(left, operator, right, I) ==
    LET then_op(a, b) == IF Failed(b) THEN b ELSE binary_op(operator, a.val, b.val, b.I)
        then_right(a) == IF Failed(a) THEN a ELSE then_op(a, evaluate(right, a.I))
    IN  then_right(evaluate(left, I))

I_visit_literal(literal, I) == Ok(I, Value_new(literal))

I_visit_unary(operator, expr, I) ==
    LET apply(val) ==
            IF Failed(val) THEN val
            ELSE CASE operator.token_type = "Minus" ->
                        IF val.val.t = "Number" THEN Ok(val.I, Number(val.val.n * (-1)))
                        ELSE Fail(val.I, operator, "WrongType")
                   [] operator.token_type = "Bang" -> Ok(val.I, Boolean(~to_bool(val.val)))
    IN  apply(evaluate(expr, I))

I_visit_grouping(expr, I) == evaluate(expr, I)

I_visit_var(name, token, I) == lookup_variable(name, token, I)

\* Variant, not the code: a target without a resolved distance is written to the
\* current frame (distance.unwrap_or(0), as lookup_variable reads).
I_visit_assignment_or_0(name, expr, token, I) ==
    LET assign(value) ==
            LET distance == get_distance(value.I, token, name)
                J == LogRef(value.I, name, token, distance)
                a == assign_at(J.heap, J.env, name, value.val,
                               IF distance = <<>> THEN 0 ELSE distance[1])
            IN  IF Failed(value) THEN value
                ELSE IF a.panic THEN Panic(J)
                ELSE IF a.prev # <<>> THEN Ok([J EXCEPT !.heap = a.heap], a.prev[1])
                ELSE Fail([J EXCEPT !.heap = a.heap], token, "UndefinedVariable")
    IN  assign(evaluate(expr, I))

I_visit_assignment(name, expr, token, I) ==
    LET assign(value) ==
            LET distance == get_distance(value.I, token, name)
                J == LogRef(value.I, name, token, distance)
                a == assign_at(J.heap, J.env, name, value.val, distance[1])
            IN  IF Failed(value) THEN value
                ELSE IF distance # <<>>
                THEN IF a.panic THEN Panic(J)
                     ELSE IF a.prev # <<>> THEN Ok([J EXCEPT !.heap = a.heap], a.prev[1])
                     ELSE Fail([J EXCEPT !.heap = a.heap], token, "UndefinedVariable")
                ELSE Fail(J, token, "UndefinedVariable")
    IN  assign(evaluate(expr, I))

\* Variant, not the code: the right operand is evaluated only when the left
\* one does not decide the result.
I_visit_logical_short(left, operator, right, I) ==
    LET then_op(left_val, right_val) ==
            IF Failed(right_val) THEN right_val
            ELSE CASE operator.token_type = "Or" -> Ok(right_val.I, right_val.val)
                   [] operator.token_type = "And" ->
                        Ok(right_val.I, Boolean(to_bool(right_val.val)))
                   [] OTHER -> right_val
        then_right(left_val) ==
            IF Failed(left_val) THEN left_val
            ELSE IF operator.token_type = "Or" /\ to_bool(left_val.val) THEN left_val
            ELSE IF operator.token_type = "And" /\ ~to_bool(left_val.val)
            THEN Ok(left_val.I, Boolean(FALSE))
            ELSE then_op(left_val, evaluate(right, left_val.I))
    IN  then_right(evaluate(left, I))

I_visit_logical(left, operator, right, I) ==
    LET then_op(left_val, right_val) ==
            IF Failed(right_val) THEN right_val
            ELSE CASE operator.token_type = "Or" ->
                        Ok(right_val.I, IF to_bool(left_val.val) THEN left_val.val
                                        ELSE right_val.val)
                   [] operator.token_type = "And" ->
                        Ok(right_val.I,
                           Boolean(to_bool(left_val.val) /\ to_bool(right_val.val)))
                   [] OTHER -> right_val
        then_right(left_val) ==
            IF Failed(left_val) THEN left_val
            ELSE then_op(left_val, evaluate(right, left_val.I))
    IN  then_right(evaluate(left, I))

\* arguments.iter().map(|a| self.evaluate(a)).collect(): stops at the first Err
RECURSIVE evaluate_args(_, _, _, _)
evaluate_args(arguments, i, vals, I) ==
    LET push(a) ==
            IF Failed(a) THEN [I |-> a.I, vals |-> vals]
            ELSE evaluate_args(arguments, i + 1, Append(vals, a.val), a.I)
    IN  IF i > Len(arguments) THEN [I |-> I, vals |-> vals]
        ELSE push(evaluate(arguments[i], I))

\* self.state.exit_call(); result
call_exit(r) == [I |-> [r.I EXCEPT !.state = exit_call(@)], val |-> r.val]

I_visit_call(callee, token, arguments, I) ==
    LET apply(c, args) ==
            CASE c.val.t = "Function" ->
                    IF IsErr(args.I.err)
                    THEN [I |-> [args.I EXCEPT !.state = enter_call(@)], val |-> Null]
                    ELSE call_exit(Function_call(c.val,
                                       [args.I EXCEPT !.state = enter_call(@)], args.vals))
              [] c.val.t = "Class" ->
                    IF IsErr(args.I.err) THEN [I |-> args.I, val |-> Null]
                    ELSE call_exit(Class_call(c.val, args.I, args.vals))
              [] OTHER -> call_exit(Fail(args.I, token, "ValueNotCallable"))
        then_args(c) ==
            IF Failed(c) THEN c ELSE apply(c, evaluate_args(arguments, 1, <<>>, c.I))
    IN  then_args(evaluate(callee, I))

\* Variant, not the code: the closure captures a copy of the defining frame.
I_visit_closure_copy(args, body, name, token, I) ==
    Ok([I EXCEPT !.heap = Append(@, I.heap[I.env])],
       Function_Standard(args, body, name, token, Len(I.heap) + 1))

I_visit_closure(args, body, name, token, I) ==
    Ok(I, Function_Standard(args, body, name, token, I.env))

I_visit_get(name, token, expr, I) ==
    LET of(obj) ==
            IF Failed(obj) THEN obj
            ELSE IF obj.val.t = "Instance" THEN Instance_get(obj.val.id, name, token, obj.I)
            ELSE Fail(obj.I, token, "ValueNotInstance")
    IN  of(evaluate(expr, I))

I_visit_set(token, name, value, obj, I) ==
    LET store(instance, val) ==
            IF Failed(val) THEN val
            ELSE Ok(Instance_set(instance.val.id, name, val.val, val.I), instance.val)
        then_value(instance) ==
            IF Failed(instance) THEN instance
            ELSE IF instance.val.t = "Instance"
            THEN store(instance, evaluate(value, instance.I))
            ELSE Fail(instance.I, token, "ValueNotInstance")
    IN  then_value(evaluate(obj, I))

I_visit_this(token, I) == lookup_deep("this", token, I)

\* Variant, not the code: the superclass method is returned without a receiver.
I_visit_super_unbound(token, method_name, I) ==
    LET superclass == lookup_deep("super", token, I)
        method == find_method(superclass.val, method_name)
    IN  IF Failed(superclass) THEN superclass
        ELSE IF superclass.val.t # "Class" THEN Panic(I)
        ELSE IF method = <<>> THEN Fail(I, token, "MethodNotFound")
        ELSE Ok(I, method[1])

I_visit_super(token, method_name, I) ==
    LET superclass == lookup_deep("super", token, I)
        method == find_method(superclass.val, method_name)
        this == get_deep(I.heap, I.env, "this")
    IN  IF Failed(superclass) THEN superclass
        ELSE IF superclass.val.t # "Class" THEN Panic(I)
        ELSE IF method = <<>> THEN Fail(I, token, "MethodNotFound")
        ELSE IF this = <<>> THEN Panic(I)
        ELSE IF this[1].t # "Instance" THEN Panic(I)
        ELSE Ok(I, bind(method[1], this[1].id))

(* impl StmtVisitor<Value> for Interpreter                                  *)

I_visit_print_stmt(expr, I) ==
    LET println(value) ==
            IF Failed(value) THEN value
            ELSE Ok([value.I EXCEPT !.out = Append(@, to_string(value.I, value.val))], Null)
    IN  println(evaluate(expr, I))

I_visit_expr_stmt(expr, I) == evaluate(expr, I)

I_visit_var_stmt(name, expr, I) ==
    LET def(value) ==
            IF Failed(value) THEN value
            ELSE Ok([value.I EXCEPT !.heap =
                        define_or_update(value.I.heap, value.I.env, name, value.val).heap],
                    value.val)
    IN  IF expr = <<>> THEN def(Ok(I, Null)) ELSE def(evaluate(expr[1], I))

I_visit_block_stmt(statements, I) ==
    EnvCheck(I.env, execute_block(statements, Len(I.heap) + 1,
                                  [I EXCEPT !.heap = Append(@, Environment_from(I.env))]))

I_visit_if_stmt(condition, then_body, else_body, I) ==
    LET branch(cond) ==
            IF Failed(cond) THEN cond
            ELSE IF to_bool(cond.val) THEN accept(then_body, cond.I)
            ELSE IF else_body # <<>> THEN accept(else_body[1], cond.I)
            ELSE Ok(cond.I, Null)
    IN  branch(evaluate(condition, I))

RECURSIVE I_visit_while_stmt(_, _, _)
I_visit_while_stmt(condition, body, I) ==
    LET again(b) == IF Failed(b) THEN b ELSE I_visit_while_stmt(condition, body, b.I)
        iterate(cond) ==
            LET wb == will_break(cond.I.state) IN
            IF Failed(cond) THEN cond
            ELSE IF to_bool(cond.val)
            THEN IF wb.ret THEN Ok([cond.I EXCEPT !.state = wb.state], Null)
                 ELSE again(accept(body, [cond.I EXCEPT !.state = wb.state]))
            ELSE Ok(cond.I, Null)
    IN  IF I.steps >= MaxSteps THEN Cut(I)
        ELSE iterate(evaluate(condition, Tick(I)))

I_visit_break_stmt(token, I) == Ok([I EXCEPT !.state.should_break = TRUE], Null)

I_visit_continue_stmt(token, I) == Ok([I EXCEPT !.state.should_continue = TRUE], Null)

I_visit_function_stmt(name, params, body, token, I) ==
    LET function == Function_Standard(params, body, name, token, I.env) IN
    Ok([I EXCEPT !.heap = define_or_update(I.heap, I.env, name, function).heap], function)

I_visit_class_stmt(name, token, members, superclass, I) ==
    LET rebind(class) ==
            IF Failed(class) THEN class
            ELSE Ok([class.I EXCEPT !.heap =
                        define_or_update(class.I.heap, class.I.env, name, class.val).heap],
                    Null)
        build(sc) ==
            IF Failed(sc) THEN sc
            ELSE IF superclass # <<>> /\ sc.val.t # "Class"
            THEN Fail(sc.I, token, "CanOnlyInheritFromClass")
            ELSE rebind(Class_new(name, members,
                                  IF superclass # <<>> THEN <<sc.val>> ELSE <<>>, sc.I))
        prebind(J) ==
            IF superclass # <<>> THEN build(evaluate(superclass[1], J)) ELSE build(Ok(J, Null))
    IN  prebind([I EXCEPT !.heap = define_or_update(I.heap, I.env, name, Null).heap])

I_visit_return_stmt(value, token, I) ==
    LET ret(val) ==
            IF Failed(val) THEN val
            ELSE Ok([val.I EXCEPT !.state.should_return = TRUE], val.val)
    IN  IF value # <<>> THEN ret(evaluate(value[1], I)) ELSE ret(Ok(I, Null))

\* Expr::accept
evaluate(expr, I) ==
    CASE expr.e = "Binary" -> I_visit_binary(expr.left, expr.operator, expr.right, I)
      [] expr.e = "Literal" -> I_visit_literal(expr.value, I)
      [] expr.e = "Grouping" -> I_visit_grouping(expr.expr, I)
      [] expr.e = "Unary" -> I_visit_unary(expr.operator, expr.expr, I)
      [] expr.e = "Var" -> I_visit_var(expr.name, expr.token, I)
      [] expr.e = "Assign" -> I_visit_assignment(expr.name, expr.expr, expr.token, I)
      [] expr.e = "Logical" -> I_visit_logical(expr.left, expr.operator, expr.right, I)
      [] expr.e = "Call" -> I_visit_call(expr.callee, expr.token, expr.arguments, I)
      [] expr.e = "Closure" -> I_visit_closure(expr.params, expr.body, expr.name, expr.token, I)
      [] expr.e = "Get" -> I_visit_get(expr.name, expr.token, expr.expr, I)
      [] expr.e = "Set" -> I_visit_set(expr.token, expr.name, expr.value, expr.obj, I)
      [] expr.e = "This" -> I_visit_this(expr.token, I)
      [] expr.e = "Super" -> I_visit_super(expr.token, expr.method_name, I)

\* Stmt::accept
accept(stmt, I) ==
    CASE stmt.s = "Print" -> I_visit_print_stmt(stmt.expr, I)
      [] stmt.s = "Expr" -> I_visit_expr_stmt(stmt.expr, I)
      [] stmt.s = "Var" -> I_visit_var_stmt(stmt.name, stmt.value, I)
      [] stmt.s = "Block" -> I_visit_block_stmt(stmt.stmts, I)
      [] stmt.s = "If" -> I_visit_if_stmt(stmt.condition, stmt.then_body, stmt.else_body, I)
      [] stmt.s = "While" -> I_visit_while_stmt(stmt.condition, stmt.body, I)
      [] stmt.s = "Continue" -> I_visit_continue_stmt(stmt.token, I)
      [] stmt.s = "Break" -> I_visit_break_stmt(stmt.token, I)
      [] stmt.s = "Function" ->
            I_visit_function_stmt(stmt.name, stmt.params, stmt.body, stmt.token, I)
      [] stmt.s = "Class" ->
            I_visit_class_stmt(stmt.name, stmt.token, stmt.members, stmt.superclass, I)
      [] stmt.s = "Return" -> I_visit_return_stmt(stmt.value, stmt.token, I)

-----------------------------------------------------------------------------
(* The Resolver.  R is the struct Resolver {interpreter, scopes, state}:   *)
(* of the interpreter it holds the distances it writes.  R.err is the Err  *)
(* of a ResolverResult (NoErr for Ok).  scopes is the LinkedList, back     *)
(* last.                                                                   *)

ResolverState_new == [current_class |-> "None", inside_loop |-> FALSE]

Resolver_new(distances) ==
    [scopes |-> <<EmptyMap>>, state |-> ResolverState_new, distances |-> distances,
     err |-> NoErr]

R_error(R, token, error_type) == [R EXCEPT !.err = Error(token, error_type)]

is_inside_loop(R, token) ==
    IF ~R.state.inside_loop THEN R_error(R, token, "NotAllowedOutsideLoop") ELSE R

\* the depth of the innermost scope that holds name, counted from the back (-1: none)
RECURSIVE scope_depth(_, _, _)
scope_depth(scopes, name, depth) ==
    IF depth >= Len(scopes) THEN -1
    ELSE IF Has(scopes[Len(scopes) - depth], name) THEN depth
    ELSE scope_depth(scopes, name, depth + 1)

Resolver_resolve_distance(R, token, name) ==
    LET depth == scope_depth(R.scopes, name, 0) IN
    IF depth = -1 THEN R
    ELSE [R EXCEPT !.distances = Interpreter_resolve_distance(@, token, name, depth)]

begin_scope(R) == [R EXCEPT !.scopes = Append(@, EmptyMap)]

end_scope(R) ==
    [R EXCEPT !.scopes = IF Len(@) = 0 THEN @ ELSE SubSeq(@, 1, Len(@) - 1)]

\* Variant, not the code: a declared name counts as defined at once.
declare_defined(R, name) ==
    IF Len(R.scopes) = 0 THEN R
    ELSE IF Has(R.scopes[Len(R.scopes)], name) THEN R
    ELSE [R EXCEPT !.scopes[Len(R.scopes)] = Put(@, name, TRUE)]

declare(R, name) ==
    IF Len(R.scopes) = 0 THEN R
    ELSE IF Has(R.scopes[Len(R.scopes)], name) THEN R
    ELSE [R EXCEPT !.scopes[Len(R.scopes)] = Put(@, name, FALSE)]

define(R, name) ==
    IF Len(R.scopes) = 0 THEN R
    ELSE [R EXCEPT !.scopes[Len(R.scopes)] = Put(@, name, TRUE)]

RECURSIVE resolve_expr(_, _), resolve_stmt(_, _)

\* [R, errors]: the Vec<Error> collected; resolution goes on after an error
RECURSIVE resolve_stmts_loop(_, _, _, _)
resolve_stmts_loop(stmts, i, errs, R) ==
    LET push(r) ==
            resolve_stmts_loop(stmts, i + 1,
                               IF IsErr(r.err) THEN Append(errs, r.err) ELSE errs,
                               [r EXCEPT !.err = NoErr])
    IN  IF i > Len(stmts) THEN [R |-> R, errors |-> errs]
        ELSE push(resolve_stmt(stmts[i], R))

resolve_stmts(stmts, R) == resolve_stmts_loop(stmts, 1, <<>>, R)

\* Variant, not the code: the collected errors are dropped.
resolve_stmts_result_ok(errs) == "Ok"

\* if errors.is_empty() { Ok(()) } else { Err(errors) }
resolve_stmts_result(errs) == IF errs = <<>> THEN "Ok" ELSE "Err"

\* impl From<Vec<Error>> for Error
Error_from(errs) == errs[1]

RECURSIVE declare_params(_, _, _)
declare_params(R, params, i) ==
    IF i > Len(params) THEN R
    ELSE declare_params(define(declare(R, params[i]), params[i]), params, i + 1)

\* the Err(Vec<Error>) is carried as its conversion by `?` at the callers
resolve_function(params, body, R) ==
    LET close(r) ==
            IF r.errors # <<>> THEN [r.R EXCEPT !.err = Error_from(r.errors)]
            ELSE end_scope(r.R)
    IN  close(resolve_stmts(body, declare_params(begin_scope(R), params, 1)))

(* impl ExprVisitor<()> for Resolver                                        *)

R_visit_two(left, right, R) ==
    LET then_right(l) == IF IsErr(l.err) THEN l ELSE resolve_expr(right, l)
    IN  then_right(resolve_expr(left, R))

R_visit_binary(left, operator, right, R) == R_visit_two(left, right, R)

R_visit_literal(literal, R) == R

R_visit_unary(operator, expr, R) == resolve_expr(expr, R)

R_visit_grouping(expr, R) == resolve_expr(expr, R)

R_visit_var(name, token, R) ==
    IF /\ Len(R.scopes) > 0
       /\ Has(R.scopes[Len(R.scopes)], name)
       /\ ~R.scopes[Len(R.scopes)][name]
    THEN R_error(R, token, "CantUseVariableInItsInitializer")
    ELSE Resolver_resolve_distance(R, token, name)

R_visit_assignment(name, expr, token, R) ==
    LET then_name(r) == IF IsErr(r.err) THEN r ELSE Resolver_resolve_distance(r, token, name)
    IN  then_name(resolve_expr(expr, R))

R_visit_logical(left, operator, right, R) == R_visit_two(left, right, R)

RECURSIVE resolve_exprs(_, _, _)
resolve_exprs(exprs, i, R) ==
    LET next(r) == IF IsErr(r.err) THEN r ELSE resolve_exprs(exprs, i + 1, r)
    IN  IF i > Len(exprs) THEN R ELSE next(resolve_expr(exprs[i], R))

R_visit_call(callee, token, arguments, R) ==
    LET then_args(c) == IF IsErr(c.err) THEN c ELSE resolve_exprs(arguments, 1, c)
    IN  then_args(resolve_expr(callee, R))

R_visit_closure(params, body, name, token, R) == resolve_function(params, body, R)

R_visit_get(name, token, expr, R) == resolve_expr(expr, R)

R_visit_set(token, name, value, obj, R) == R_visit_two(value, obj, R)

R_visit_this(token, R) ==
    IF R.state.current_class = "None" THEN R_error(R, token, "CantUseThis")
    ELSE Resolver_resolve_distance(R, token, "this")

R_visit_super(token, method_name, R) ==
    IF R.state.current_class = "Subclass" THEN Resolver_resolve_distance(R, token, "super")
    ELSE R_error(R, token, "CantUseSuper")

(* impl StmtVisitor<()> for Resolver                                        *)

R_visit_print_stmt(expr, R) == resolve_expr(expr, R)

R_visit_expr_stmt(expr, R) == resolve_expr(expr, R)

R_visit_var_stmt(name, expr, R) ==
    LET def(r) == IF IsErr(r.err) THEN r ELSE define(r, name)
    IN  IF expr # <<>> THEN def(resolve_expr(expr[1], declare(R, name)))
        ELSE def(declare(R, name))

R_visit_block_stmt(stmts, R) ==
    LET close(r) ==
            IF r.errors # <<>> THEN [r.R EXCEPT !.err = Error_from(r.errors)]
            ELSE end_scope(r.R)
    IN  close(resolve_stmts(stmts, begin_scope(R)))

R_visit_if_stmt(condition, then_body, else_body, R) ==
    LET then_else(t) ==
            IF IsErr(t.err) THEN t
            ELSE IF else_body # <<>> THEN resolve_stmt(else_body[1], t) ELSE t
        then_then(c) == IF IsErr(c.err) THEN c ELSE then_else(resolve_stmt(then_body, c))
    IN  then_then(resolve_expr(condition, R))

R_visit_while_stmt(condition, body, R) ==
    LET leave(b) == IF IsErr(b.err) THEN b ELSE [b EXCEPT !.state.inside_loop = FALSE]
        then_body(c) == IF IsErr(c.err) THEN c ELSE leave(resolve_stmt(body, c))
    IN  then_body(resolve_expr(condition, [R EXCEPT !.state.inside_loop = TRUE]))

R_visit_break_stmt(token, R) == is_inside_loop(R, token)

R_visit_continue_stmt(token, R) == is_inside_loop(R, token)

R_visit_function_stmt(name, params, body, token, R) ==
    resolve_function(params, body, define(declare(R, name), name))

RECURSIVE resolve_methods(_, _, _)
resolve_methods(members, i, R) ==
    LET next(r) == IF IsErr(r.err) THEN r ELSE resolve_methods(members, i + 1, r)
    IN  IF i > Len(members) THEN R
        ELSE IF members[i].s = "Function"
        THEN next(resolve_function(members[i].params, members[i].body, R))
        ELSE next(R)

R_visit_class_stmt(name, token, members, superclass, R) ==
    LET leave(m) ==
            IF IsErr(m.err) THEN m
            ELSE [end_scope(m) EXCEPT !.state.current_class = "None"]
        this_scope(b) ==
            leave(resolve_methods(members, 1,
                      [b EXCEPT !.scopes[Len(b.scopes)] = Put(@, "this", TRUE)]))
        with_super(r) ==
            IF IsErr(r.err) THEN r
            ELSE this_scope(begin_scope(
                     [r EXCEPT !.scopes[Len(r.scopes)] = Put(@, "super", TRUE)]))
        header(d) ==
            IF superclass # <<>>
            THEN IF superclass[1].name = name
                 THEN R_error([d EXCEPT !.state.current_class = "Subclass"],
                              superclass[1].token, "CantInheritFromItself")
                 ELSE with_super(resolve_expr(superclass[1],
                                     [d EXCEPT !.state.current_class = "Subclass"]))
            ELSE this_scope(begin_scope([d EXCEPT !.state.current_class = "Class"]))
    IN  header(define(declare(R, name), name))

R_visit_return_stmt(value, token, R) ==
    IF value # <<>> THEN resolve_expr(value[1], R) ELSE R

resolve_expr(expr, R) ==
    CASE expr.e = "Binary" -> R_visit_binary(expr.left, expr.operator, expr.right, R)
      [] expr.e = "Literal" -> R_visit_literal(expr.value, R)
      [] expr.e = "Grouping" -> R_visit_grouping(expr.expr, R)
      [] expr.e = "Unary" -> R_visit_unary(expr.operator, expr.expr, R)
      [] expr.e = "Var" -> R_visit_var(expr.name, expr.token, R)
      [] expr.e = "Assign" -> R_visit_assignment(expr.name, expr.expr, expr.token, R)
      [] expr.e = "Logical" -> R_visit_logical(expr.left, expr.operator, expr.right, R)
      [] expr.e = "Call" -> R_visit_call(expr.callee, expr.token, expr.arguments, R)
      [] expr.e = "Closure" -> R_visit_closure(expr.params, expr.body, expr.name, expr.token, R)
      [] expr.e = "Get" -> R_visit_get(expr.name, expr.token, expr.expr, R)
      [] expr.e = "Set" -> R_visit_set(expr.token, expr.name, expr.value, expr.obj, R)
      [] expr.e = "This" -> R_visit_this(expr.token, R)
      [] expr.e = "Super" -> R_visit_super(expr.token, expr.method_name, R)

resolve_stmt(stmt, R) ==
    CASE stmt.s = "Print" -> R_visit_print_stmt(stmt.expr, R)
      [] stmt.s = "Expr" -> R_visit_expr_stmt(stmt.expr, R)
      [] stmt.s = "Var" -> R_visit_var_stmt(stmt.name, stmt.value, R)
      [] stmt.s = "Block" -> R_visit_block_stmt(stmt.stmts, R)
      [] stmt.s = "If" -> R_visit_if_stmt(stmt.condition, stmt.then_body, stmt.else_body, R)
      [] stmt.s = "While" -> R_visit_while_stmt(stmt.condition, stmt.body, R)
      [] stmt.s = "Continue" -> R_visit_continue_stmt(stmt.token, R)
      [] stmt.s = "Break" -> R_visit_break_stmt(stmt.token, R)
      [] stmt.s = "Function" ->
            R_visit_function_stmt(stmt.name, stmt.params, stmt.body, stmt.token, R)
      [] stmt.s = "Class" ->
            R_visit_class_stmt(stmt.name, stmt.token, stmt.members, stmt.superclass, R)
      [] stmt.s = "Return" -> R_visit_return_stmt(stmt.value, stmt.token, R)

-----------------------------------------------------------------------------
(* Programs, as the parser builds them.  A program is named by a record    *)
(* [name, k, j]: a family and two parameters.                              *)

\* Bounds of the program families: the largest value and loop count used.
MaxVal == 3

MaxParams == 2

Num(n) == Literal(Number(n))

Str(s) == Literal(String(s))

True == Literal(Boolean(TRUE))

RECURSIVE Names(_, _)
Names(prefix, n) == IF n = 0 THEN <<>> ELSE Append(Names(prefix, n - 1), prefix \o ToString(n))

RECURSIVE Nums(_)
Nums(n) == IF n = 0 THEN <<>> ELSE Append(Nums(n - 1), Num(n))

RECURSIVE Nest(_, _)
Nest(stmts, depth) == IF depth = 0 THEN stmts ELSE <<Block(Nest(stmts, depth - 1))>>

\* var x = 1; var f = || => x; x = k; print f();
\* j = 1: var x = 1; fun f() { return x; } { x = k; print f(); }
ProgClosure(k, j) ==
    IF j = 0
    THEN << VarStmt("x", <<Num(1)>>),
            VarStmt("f", <<Closure(<<>>, <<Return(<<Var("x", 10)>>, 11)>>, 12)>>),
            ExprStmt(Assign("x", Num(k), 13)),
            PrintStmt(Call(Var("f", 14), <<>>, 15)) >>
    ELSE << VarStmt("x", <<Num(1)>>),
            Function("f", <<>>, <<Return(<<Var("x", 10)>>, 11)>>, 12),
            Block(<< ExprStmt(Assign("x", Num(k), 13)),
                     PrintStmt(Call(Var("f", 14), <<>>, 15)) >>) >>

\* var x = 1; { var x = k; print x; } print x;     (the block nested j deep)
ProgShadow(k, j) ==
    << VarStmt("x", <<Num(1)>>) >>
    \o Nest(<< VarStmt("x", <<Num(k)>>), PrintStmt(Var("x", 10)) >>, j + 1)
    \o << PrintStmt(Var("x", 11)) >>

\* class A { greet() { return "A"; } }
\* class B : A { greet() { return super.greet() + "B"; } }
\* print B().greet();
\* k = 1: A.greet also sets this.seen = "s", B.greet returns super.greet() + this.seen + "B"
ProgSuper(k) ==
    << Class("A", <<>>,
             << Function("greet", <<>>,
                   (IF k = 1 THEN <<ExprStmt(Set(This(10), "seen", Str("s"), 11))>> ELSE <<>>)
                   \o <<Return(<<Str("A")>>, 12)>>, 13) >>, 14),
       Class("B", <<Var("A", 20)>>,
             << Function("greet", <<>>,
                   << Return(<< Binary(
                          IF k = 1
                          THEN Binary(Call(Super("greet", 21), <<>>, 22), "Plus",
                                      Get(This(23), "seen", 24))
                          ELSE Call(Super("greet", 21), <<>>, 22),
                          "Plus", Str("B")) >>, 25) >>, 26) >>, 27),
       PrintStmt(Call(Get(Call(Var("B", 30), <<>>, 31), "greet", 32), <<>>, 33)) >>

\* fun f(p1, .., pk) { print "body"; }  f(1, .., j);  print "after";
ProgArity(k, j) ==
    << Function("f", Names("p", k), <<PrintStmt(Str("body"))>>, 10),
       ExprStmt(Call(Var("f", 11), Nums(j), 12)),
       PrintStmt(Str("after")) >>

\* var i = 0; while (true) { print i; if (i == k) break; i = i + 1; print "t"; } print "end";
\* j > 0: the break stands in j nested blocks: .. if (i == k) {{ break; }} ..
ProgBreak(k, j) ==
    << VarStmt("i", <<Num(0)>>),
       While(True,
             Block(<< PrintStmt(Var("i", 10)),
                      If(Binary(Var("i", 11), "Compare", Num(k)),
                         IF j = 0 THEN Break(12) ELSE Nest(<<Break(12)>>, j)[1], <<>>),
                      ExprStmt(Assign("i", Binary(Var("i", 13), "Plus", Num(1)), 14)),
                      PrintStmt(Str("t")) >>)),
       PrintStmt(Str("end")) >>

\* var i = 0;
\* while (i < MaxVal) { i = i + 1; {{ if (i == k) continue; print "x"; }} print i; }
\* the braces around `if .. print "x";` are j deep
ProgContinue(k, j) ==
    << VarStmt("i", <<Num(0)>>),
       While(Binary(Var("i", 10), "Less", Num(MaxVal)),
             Block(<< ExprStmt(Assign("i", Binary(Var("i", 11), "Plus", Num(1)), 12)) >>
                   \o Nest(<< If(Binary(Var("i", 13), "Compare", Num(k)), Continue(14), <<>>),
                              PrintStmt(Str("x")) >>, j)
                   \o << PrintStmt(Var("i", 15)) >>)) >>

\* the initializers of the self-reference family
SelfInit(k) ==
    CASE k = 0 -> Var("x", 10)
      [] k = 1 -> Binary(Var("x", 10), "Plus", Num(1))
      [] k = 2 -> Unary("Minus", Var("x", 10))
      [] k = 3 -> Grouping(Var("x", 10))
      [] k = 4 -> Call(Var("x", 10), <<>>, 11)
      [] k = 5 -> Logical(Num(1), "Or", Var("x", 10))
      [] k = 6 -> Assign("y", Var("x", 10), 11)
      [] k = 7 -> Get(Var("x", 10), "p", 11)

\* j = 0: var x = <init>;            j = 1: { var x = <init>; }
\* j = 2: fun f() { var x = <init>; }  j = 3: var x = 1; { var x = <init>; }
\* j = 4: var f = || => { var x = <init>; };
\* j = 5: while (true) { var x = <init>; }
\* j = 6: var x = 1; var x = <init>;   (x is already defined: accepted)
\* j = 7: var y = 1; var x = y;        (no self-reference: accepted)
ProgSelfInit(k, j) ==
    LET decl == VarStmt("x", <<SelfInit(k)>>) IN
    (CASE j = 0 -> << VarStmt("y", <<Num(0)>>), decl >>
       [] j = 1 -> << Block(<<decl>>) >>
       [] j = 2 -> << Function("f", <<>>, <<decl>>, 20) >>
       [] j = 3 -> << VarStmt("x", <<Num(1)>>), Block(<<decl>>) >>
       [] j = 4 -> << VarStmt("f", <<Closure(<<>>, <<Block(<<decl>>)>>, 20)>>) >>
       [] j = 5 -> << While(True, Block(<<decl, Break(21)>>)) >>
       [] j = 6 -> << VarStmt("x", <<Num(1)>>), decl >>
       [] j = 7 -> << VarStmt("y", <<Num(1)>>), VarStmt("x", <<Var("y", 10)>>) >>)
    \o << PrintStmt(Str("ran")) >>

\* programs the resolver rejects, each after a print
\* k = 0: print "p"; break;            k = 1: print "p"; { continue; }
\* k = 2: print "p"; print this;       k = 3: print "p"; class A { m() { super.m(); } }
\* k = 4: print "p"; class A : A { }   k = 5: print "p"; var x = x; break;
\* j = 1: followed by print "q";
ProgRejected(k, j) ==
    << PrintStmt(Str("p")) >>
    \o (CASE k = 0 -> << Break(10) >>
          [] k = 1 -> << Block(<<Continue(10)>>) >>
          [] k = 2 -> << PrintStmt(This(10)) >>
          [] k = 3 -> << Class("A", <<>>,
                           << Function("m", <<>>,
                                 <<ExprStmt(Call(Super("m", 10), <<>>, 11))>>, 12) >>, 13) >>
          [] k = 4 -> << Class("A", <<Var("A", 10)>>, <<>>, 11) >>
          [] k = 5 -> << VarStmt("x", <<Var("x", 10)>>), Break(11) >>)
    \o (IF j = 1 THEN << PrintStmt(Str("q")) >> ELSE <<>>)

\* the failing expressions of the runtime-error family
Failing(k) ==
    CASE k = 0 -> Var("y", 10)
      [] k = 1 -> Unary("Minus", Str("a"))
      [] k = 2 -> Binary(Num(1), "Plus", Str("a"))
      [] k = 3 -> Call(Num(1), <<>>, 10)
      [] k = 4 -> Get(Num(1), "p", 10)
      [] k = 5 -> Call(Num(1), <<Var("y", 10)>>, 11)
      [] k = 6 -> Call(Var("clock", 10), <<>>, 11)

\* j = 0: print "a"; <failing>; print "b";
\* j = 1: { print "a"; <failing>; print "b"; } print "c";
\* j = 2: fun f() { print "a"; <failing>; print "b"; } f(); print "c";
\* j = 3: while (true) { print "a"; <failing>; print "b"; } print "c";
\* j = 4: (|g| => { print "a"; g(); print "b"; })(|| => { <failing>; }); print "c";
ProgFail(k, j) ==
    LET body == << PrintStmt(Str("a")), ExprStmt(Failing(k)), PrintStmt(Str("b")) >> IN
    CASE j = 0 -> body
      [] j = 1 -> << Block(body), PrintStmt(Str("c")) >>
      [] j = 2 -> << Function("f", <<>>, body, 20),
                     ExprStmt(Call(Var("f", 21), <<>>, 22)), PrintStmt(Str("c")) >>
      [] j = 3 -> << While(True, Block(body)), PrintStmt(Str("c")) >>
      [] j = 4 -> << ExprStmt(Call(
                        Closure(<<"g">>,
                                << Block(<< PrintStmt(Str("a")),
                                            ExprStmt(Call(Var("g", 23), <<>>, 24)),
                                            PrintStmt(Str("b")) >>) >>, 25),
                        << Closure(<<>>, <<Block(<<ExprStmt(Failing(k))>>)>>, 26) >>, 27)),
                     PrintStmt(Str("c")) >>

\* var x = k; class A { m() { return x; } } print A().m();
\* j = 1: the class and the call stand in a block
\* j = 2: class A { var p = x; } print A().p;
ProgMethod(k, j) ==
    LET cls == IF j = 2
               THEN Class("A", <<>>, << VarStmt("p", <<Var("x", 10)>>) >>, 13)
               ELSE Class("A", <<>>,
                          << Function("m", <<>>, <<Return(<<Var("x", 10)>>, 11)>>, 12) >>, 13)
        use == IF j = 2
               THEN PrintStmt(Get(Call(Var("A", 14), <<>>, 15), "p", 16))
               ELSE PrintStmt(Call(Get(Call(Var("A", 14), <<>>, 15), "m", 16), <<>>, 17))
    IN  << VarStmt("x", <<Num(k)>>) >>
        \o (IF j = 1 THEN << Block(<<cls, use>>) >> ELSE <<cls, use>>)

\* k statements `print this;` outside any class, each an error of the resolver
RECURSIVE Erroneous(_)
Erroneous(k) == IF k = 0 THEN <<>> ELSE Append(Erroneous(k - 1), PrintStmt(This(10 + k)))

\* j = 0: print this; .. print this;          j = 1: { print this; .. }
\* j = 2: fun f() { print this; .. }          j = 3: while (true) { print this; .. }
\* j = 4: var f = || => { print this; .. };
ProgMulti(k, j) ==
    CASE j = 0 -> Erroneous(k)
      [] j = 1 -> << Block(Erroneous(k)) >>
      [] j = 2 -> << Function("f", <<>>, Erroneous(k), 20) >>
      [] j = 3 -> << While(True, Block(Erroneous(k))) >>
      [] j = 4 -> << VarStmt("f", <<Closure(<<>>, <<Block(Erroneous(k))>>, 20)>>) >>

\* assignments to a name no enclosing scope declares, between two prints
\* j = 0: x = k;                      j = 1: { x = k; }
\* j = 2: fun f() { x = k; } f();     j = 3: { var x = 0; } x = k;
\* j = 4: class A { m() { x = k; } } A().m();
ProgAssign(k, j) ==
    LET asg == ExprStmt(Assign("x", Num(k), 10)) IN
    << PrintStmt(Str("before")) >>
    \o (CASE j = 0 -> << asg >>
          [] j = 1 -> << Block(<<asg>>) >>
          [] j = 2 -> << Function("f", <<>>, <<asg>>, 20),
                         ExprStmt(Call(Var("f", 21), <<>>, 22)) >>
          [] j = 3 -> << Block(<<VarStmt("x", <<Num(0)>>)>>), asg >>
          [] j = 4 -> << Class("A", <<>>, << Function("m", <<>>, <<asg>>, 20) >>, 21),
                         ExprStmt(Call(Get(Call(Var("A", 22), <<>>, 23), "m", 24),
                                       <<>>, 25)) >>)
    \o << PrintStmt(Str("after")) >>

\* class A { var p = 0; set(v) { this.p = v; } get() { return this.p; }
\*           constructor() { this.made = "c"; } }          (constructor: j = 4 only)
\* var a = A(); var b = A();
\* j = 0: a.p = k; print a.p; print b.p; print A().p;
\* j = 1: a.p = k; a.p = k + 1; b.q = k; print a.p; print b.p; print A().p;
\* j = 2: a.set(k); print a.p;
\* j = 3: a.set(k); print a.get();
\* j = 4: print a.made; a.p = k; print a.p;
ProgInstance(k, j) ==
    LET a == Var("a", 30)
        b == Var("b", 31)
        new == Call(Var("A", 32), <<>>, 33)
        prop(obj, n) == PrintStmt(Get(obj, n, 34))
    IN  << Class("A", <<>>,
                 << VarStmt("p", <<Num(0)>>),
                    Function("set", <<"v">>,
                             <<ExprStmt(Set(This(10), "p", Var("v", 11), 12))>>, 13),
                    Function("get", <<>>, <<Return(<<Get(This(14), "p", 15)>>, 16)>>, 17) >>
                 \o (IF j = 4
                     THEN << Function("constructor", <<>>,
                                <<ExprStmt(Set(This(18), "made", Str("c"), 19))>>, 20) >>
                     ELSE <<>>), 21),
           VarStmt("a", <<new>>),
           VarStmt("b", <<new>>) >>
        \o (CASE j = 0 -> << ExprStmt(Set(a, "p", Num(k), 40)),
                             prop(a, "p"), prop(b, "p"), prop(new, "p") >>
              [] j = 1 -> << ExprStmt(Set(a, "p", Num(k), 40)),
                             ExprStmt(Set(a, "p", Num(k + 1), 41)),
                             ExprStmt(Set(b, "q", Num(k), 42)),
                             prop(a, "p"), prop(b, "p"), prop(new, "p") >>
              [] j = 2 -> << ExprStmt(Call(Get(a, "set", 43), <<Num(k)>>, 44)),
                             prop(a, "p") >>
              [] j = 3 -> << ExprStmt(Call(Get(a, "set", 43), <<Num(k)>>, 44)),
                             PrintStmt(Call(Get(a, "get", 45), <<>>, 46)) >>
              [] j = 4 -> << prop(a, "made"), ExprStmt(Set(a, "p", Num(k), 40)),
                             prop(a, "p") >>)

\* j = 0: fun f() { return k; print "after"; } print f();
\* j = 1: fun g() { return 0; } fun f() { g(); return k; print "after"; } print f();
\* j = 2: fun f(n) { if (n > 0) { f(n - 1); } return k; print "after"; } print f(1);
\* j = 3: fun f() { var i = 0; while (i < 2) { print "in"; i = i + 1; return k; }
\*                 print "after"; } print f();
\* j = 4: fun f() { while (true) { return k; } } print f();
\* j = 5: return 0; print "next"; fun f() { print "body"; return k; } print f();
\* j = 6: print "next"; fun f() { print "body"; return k; } print f();
ProgReturn(k, j) ==
    LET ret == Return(<<Num(k)>>, 10)
        after == PrintStmt(Str("after"))
        call(args) == PrintStmt(Call(Var("f", 11), args, 12))
        body == Function("f", <<>>, << PrintStmt(Str("body")), ret >>, 13)
    IN  CASE j = 0 -> << Function("f", <<>>, << ret, after >>, 13), call(<<>>) >>
          [] j = 1 -> << Function("g", <<>>, << Return(<<Num(0)>>, 14) >>, 15),
                         Function("f", <<>>, << ExprStmt(Call(Var("g", 16), <<>>, 17)),
                                                ret, after >>, 13),
                         call(<<>>) >>
          [] j = 2 -> << Function("f", <<"n">>,
                                  << If(Binary(Var("n", 14), "Greater", Num(0)),
                                        Block(<< ExprStmt(Call(Var("f", 15),
                                            << Binary(Var("n", 16), "Minus", Num(1)) >>,
                                            17)) >>),
                                        <<>>),
                                     ret, after >>, 13),
                         call(<< Num(1) >>) >>
          [] j = 3 -> << Function("f", <<>>,
                                  << VarStmt("i", <<Num(0)>>),
                                     While(Binary(Var("i", 14), "Less", Num(2)),
                                           Block(<< PrintStmt(Str("in")),
                                                    ExprStmt(Assign("i",
                                                        Binary(Var("i", 15), "Plus", Num(1)),
                                                        16)),
                                                    ret >>)),
                                     after >>, 13),
                         call(<<>>) >>
          [] j = 4 -> << Function("f", <<>>, << While(True, Block(<< ret >>)) >>, 13),
                         call(<<>>) >>
          [] j = 5 -> << Return(<<Num(0)>>, 18), PrintStmt(Str("next")), body, call(<<>>) >>
          [] j = 6 -> << PrintStmt(Str("next")), body, call(<<>>) >>

\* var i = 0;
\* j = 0: while (i < k) { i = i + 1; }
\* j = 1: while (true) { i = i + 1; if (i == k) break; }
\* j = 2: while (i < k) { i = i + 1; if (i == k) break; }
\* j = 3: while (i < k) { i = i + 1; continue; }
\* print "after";
ProgLoop(k, j) ==
    LET incr == ExprStmt(Assign("i", Binary(Var("i", 10), "Plus", Num(1)), 11))
        less == Binary(Var("i", 12), "Less", Num(k))
        brk == If(Binary(Var("i", 13), "Compare", Num(k)), Break(14), <<>>)
    IN  << VarStmt("i", <<Num(0)>>),
           CASE j = 0 -> While(less, Block(<< incr >>))
             [] j = 1 -> While(True, Block(<< incr, brk >>))
             [] j = 2 -> While(less, Block(<< incr, brk >>))
             [] j = 3 -> While(less, Block(<< incr, Continue(15) >>)),
           PrintStmt(Str("after")) >>

\* class A { m() { print k; } }
\* class B : A { var n = 0; m() { this.n = this.n + 1; print "B";
\*                                if (this.n < 2) super.m(); } }
\* class C : B { var n = 0; }
\* j = 0: B().m();        j = 1: C().m();
ProgChain(k, j) ==
    << Class("A", <<>>, << Function("m", <<>>, << PrintStmt(Num(k)) >>, 10) >>, 11),
       Class("B", <<Var("A", 12)>>,
             << VarStmt("n", <<Num(0)>>),
                Function("m", <<>>,
                   << ExprStmt(Set(This(13), "n",
                                   Binary(Get(This(14), "n", 15), "Plus", Num(1)), 16)),
                      PrintStmt(Str("B")),
                      If(Binary(Get(This(17), "n", 18), "Less", Num(2)),
                         ExprStmt(Call(Super("m", 19), <<>>, 20)),
                         <<>>) >>, 21) >>, 22),
       Class("C", <<Var("B", 23)>>, << VarStmt("n", <<Num(0)>>) >>, 24),
       ExprStmt(Call(Get(Call(Var(IF j = 0 THEN "B" ELSE "C", 25), <<>>, 26), "m", 27),
                     <<>>, 28)) >>

\* class A { var p = k; make() { return A(); } }  print A().make().p;
\* j = 0: at top level   j = 1: both inside a block   j = 2: both in the body of f; f();
ProgSelfRef(k, j) ==
    LET decl == Class("A", <<>>,
                      << VarStmt("p", <<Num(k)>>),
                         Function("make", <<>>,
                                  << Return(<<Call(Var("A", 10), <<>>, 11)>>, 12) >>, 13) >>,
                      14)
        use == PrintStmt(Get(Call(Get(Call(Var("A", 15), <<>>, 16), "make", 17), <<>>, 18),
                             "p", 19))
    IN  CASE j = 0 -> << decl, use >>
          [] j = 1 -> << Block(<< decl, use >>) >>
          [] j = 2 -> << Function("f", <<>>, << decl, use >>, 20),
                         ExprStmt(Call(Var("f", 21), <<>>, 22)) >>

\* var i = 0;
\* j = 0: while (i < k) { i = i + 1; while (false) { print "in"; } break; }
\* j = 1: while (i < k) { i = i + 1; while (false) { print "in"; } continue; }
\* j = 2: while (i < k) { i = i + 1; } break;
\* j = 3: while (i < k) { i = i + 1; } continue;
ProgNestLoop(k, j) ==
    LET incr == ExprStmt(Assign("i", Binary(Var("i", 10), "Plus", Num(1)), 11))
        less == Binary(Var("i", 12), "Less", Num(k))
        inner == While(Literal(Boolean(FALSE)), Block(<< PrintStmt(Str("in")) >>))
        signal == IF j \in {0, 2} THEN Break(13) ELSE Continue(13)
    IN  << VarStmt("i", <<Num(0)>>) >>
        \o (IF j \in {0, 1} THEN << While(less, Block(<< incr, inner, signal >>)) >>
            ELSE << While(less, Block(<< incr >>)), signal >>)

\* j = 0: class A { var p = k; m() { class B { } print this.p; } } A().m();
\* j = 1: class A { var p = k; m() { print this.p; } } A().m(); print this;
\* j = 2: class A { var p = k; m() { break; } } print this;
ProgNestClass(k, j) ==
    LET show == PrintStmt(Get(This(10), "p", 11))
        A(body) == Class("A", <<>>, << VarStmt("p", <<Num(k)>>),
                                       Function("m", <<>>, body, 12) >>, 13)
        call == ExprStmt(Call(Get(Call(Var("A", 14), <<>>, 15), "m", 16), <<>>, 17))
    IN  CASE j = 0 -> << A(<< Class("B", <<>>, <<>>, 18), show >>), call >>
          [] j = 1 -> << A(<< show >>), call, PrintStmt(This(19)) >>
          [] j = 2 -> << A(<< Break(20) >>), PrintStmt(This(19)) >>

\* the operand values: true, false, nil, 0, "", "s"
Operand(i) ==
    <<Boolean(TRUE), Boolean(FALSE), Null, Number(0), String(""), String("s")>>[i + 1]

\* fun l() { print "l"; return <Operand(k)>; }
\* fun r() { print "r"; return <Operand(j \div 2)>; }
\* print l() or r();      (j even)        print l() and r();     (j odd)
ProgLogical(k, j) ==
    LET operand(name, v, pos) ==
            Function(name, <<>>, << PrintStmt(Str(name)),
                                    Return(<<Literal(v)>>, pos) >>, pos + 1)
    IN  << operand("l", Operand(k), 10),
           operand("r", Operand(j \div 2), 12),
           PrintStmt(Logical(Call(Var("l", 14), <<>>, 15),
                             IF j % 2 = 0 THEN "Or" ELSE "And",
                             Call(Var("r", 16), <<>>, 17))) >>

\* f == fun f() { return g(); }      g == fun g() { return k; }
\* j = 0: f g print f();     j = 1: { f g print f(); }     j = 2: g f print f();
ProgMutual(k, j) ==
    LET f == Function("f", <<>>, << Return(<<Call(Var("g", 10), <<>>, 11)>>, 12) >>, 13)
        g == Function("g", <<>>, << Return(<<Num(k)>>, 14) >>, 15)
        use == PrintStmt(Call(Var("f", 16), <<>>, 17))
    IN  CASE j = 0 -> << f, g, use >>
          [] j = 1 -> << Block(<< f, g, use >>) >>
          [] j = 2 -> << g, f, use >>

\* j = 0: print clock();                      j = 1: { print clock(); }
\* j = 2: fun f() { return clock(); } print f();
\* then: print k;
ProgGlobal(k, j) ==
    LET clock == Call(Var("clock", 10), <<>>, 11) IN
    (CASE j = 0 -> << PrintStmt(clock) >>
       [] j = 1 -> << Block(<< PrintStmt(clock) >>) >>
       [] j = 2 -> << Function("f", <<>>, << Return(<<clock>>, 12) >>, 13),
                      PrintStmt(Call(Var("f", 14), <<>>, 15)) >>)
    \o << PrintStmt(Num(k)) >>

\* j = 0: var x = k; class A { var p = x; } print A().p;
\* j = 1: var x = k; print y;
\* j = 2: var x = k; { class A { var p = x; } print A().p; }
ProgUnresolved(k, j) ==
    LET decl == Class("A", <<>>, << VarStmt("p", <<Var("x", 10)>>) >>, 11)
        use == PrintStmt(Get(Call(Var("A", 12), <<>>, 13), "p", 14))
    IN  << VarStmt("x", <<Num(k)>>) >>
        \o (CASE j = 0 -> << decl, use >>
              [] j = 1 -> << PrintStmt(Var("y", 10)) >>
              [] j = 2 -> << Block(<< decl, use >>) >>)

\* for (var i = 0; i < k; i = i + 1) <body>      as Parser::for_stmt builds it:
\* { var i = 0; while (i < k) { <body> i = i + 1; } }
\* j = 0: { print i; if (i == 0) continue; }
\* j = 1: { if (i == 0) continue; print i; }
\* j = 2: if (i == 0) continue;
ProgFor(k, j) ==
    LET skip == If(Binary(Var("i", 10), "Compare", Num(0)), Continue(11), <<>>)
        show == PrintStmt(Var("i", 12))
        body == CASE j = 0 -> Block(<< show, skip >>)
                  [] j = 1 -> Block(<< skip, show >>)
                  [] j = 2 -> skip
        executor == Assign("i", Binary(Var("i", 13), "Plus", Num(1)), 14)
    IN  << Block(<< VarStmt("i", <<Num(0)>>),
                    While(Binary(Var("i", 15), "Less", Num(k)),
                          Block(<< body, ExprStmt(executor) >>)) >>) >>

Family(name, ks, js) == {[name |-> name, k |-> k, j |-> j] : k \in ks, j \in js}

ProgramIds ==
    Family("closure", 0..MaxVal, 0..1)
    \cup Family("shadow", 0..MaxVal, 0..1)
    \cup Family("super", 0..1, {0})
    \cup Family("arity", 0..MaxParams, 0..MaxParams)
    \cup Family("break", 0..MaxVal, 0..2)
    \cup Family("continue", 1..MaxVal, 0..2)
    \cup Family("selfinit", 0..7, 0..7)
    \cup Family("rejected", 0..5, 0..1)
    \cup Family("fail", 0..6, 0..4)
    \cup Family("method", 1..MaxVal, 0..2)
    \cup Family("multi", 1..MaxVal, 0..4)
    \cup Family("assign", 1..MaxVal, 0..4)
    \cup Family("instance", 1..MaxVal, 0..4)
    \cup Family("return", 1..MaxVal, 0..6)
    \cup Family("loop", 1..MaxVal, 0..3)
    \cup Family("chain", 1..MaxVal, 0..1)
    \cup Family("selfref", 1..MaxVal, 0..2)
    \cup Family("nestloop", 1..MaxVal, 0..3)
    \cup Family("nestclass", 1..MaxVal, 0..2)
    \cup Family("logical", 0..5, 0..11)
    \cup Family("mutual", 1..MaxVal, 0..2)
    \cup Family("global", 1..MaxVal, 0..2)
    \cup Family("unres", 1..MaxVal, 0..2)
    \cup Family("for", 1..MaxVal, 0..2)

Program(p) ==
    CASE p.name = "closure" -> ProgClosure(p.k, p.j)
      [] p.name = "shadow" -> ProgShadow(p.k, p.j)
      [] p.name = "super" -> ProgSuper(p.k)
      [] p.name = "arity" -> ProgArity(p.k, p.j)
      [] p.name = "break" -> ProgBreak(p.k, p.j)
      [] p.name = "continue" -> ProgContinue(p.k, p.j)
      [] p.name = "selfinit" -> ProgSelfInit(p.k, p.j)
      [] p.name = "rejected" -> ProgRejected(p.k, p.j)
      [] p.name = "fail" -> ProgFail(p.k, p.j)
      [] p.name = "method" -> ProgMethod(p.k, p.j)
      [] p.name = "multi" -> ProgMulti(p.k, p.j)
      [] p.name = "assign" -> ProgAssign(p.k, p.j)
      [] p.name = "instance" -> ProgInstance(p.k, p.j)
      [] p.name = "return" -> ProgReturn(p.k, p.j)
      [] p.name = "loop" -> ProgLoop(p.k, p.j)
      [] p.name = "chain" -> ProgChain(p.k, p.j)
      [] p.name = "selfref" -> ProgSelfRef(p.k, p.j)
      [] p.name = "nestloop" -> ProgNestLoop(p.k, p.j)
      [] p.name = "nestclass" -> ProgNestClass(p.k, p.j)
      [] p.name = "logical" -> ProgLogical(p.k, p.j)
      [] p.name = "mutual" -> ProgMutual(p.k, p.j)
      [] p.name = "global" -> ProgGlobal(p.k, p.j)
      [] p.name = "unres" -> ProgUnresolved(p.k, p.j)
      [] p.name = "for" -> ProgFor(p.k, p.j)

-----------------------------------------------------------------------------
(* run_code: Interpreter::new, Resolver::new, resolve_stmts(&stmts)?,      *)
(* interpret(&stmts).  One action is one iteration of the top-level loop   *)
(* of resolve_stmts or of interpret, or the return that follows the loop.  *)

\* no call of ancestor is being observed
NoProbe == [heap |-> <<>>, env |-> 0, distance |-> 0, ret |-> <<>>]

Init ==
    /\ prog \in ProgramIds
    /\ phase = "resolve"
    /\ ri = 1
    /\ resolver = Resolver_new(EmptyMap)
    /\ errors = <<>>
    /\ ii = 1
    /\ interp = Interpreter_new
    /\ last_val = <<>>
    /\ result = [status |-> "running", errors |-> <<>>]
    /\ first_pass = <<>>
    /\ probe = NoProbe

\* resolve_stmts, one statement of its loop
ResolveStmt ==
    /\ phase = "resolve"
    /\ ri <= Len(Program(prog))
    /\ LET collect(r) ==
               /\ resolver' = [r EXCEPT !.err = NoErr]
               /\ errors' = IF IsErr(r.err) THEN Append(errors, r.err) ELSE errors
               /\ interp' = [interp EXCEPT !.distances = r.distances]
       IN  collect(resolve_stmt(Program(prog)[ri], resolver))
    /\ ri' = ri + 1
    /\ UNCHANGED <<first_pass, probe, prog, phase, ii, last_val, result>>

\* resolve_stmts returns Err(errors) and run_code returns it
ResolveErr ==
    /\ phase = "resolve"
    /\ ri > Len(Program(prog))
    /\ resolve_stmts_result(errors) = "Err"
    /\ phase' = "done"
    /\ result' = [status |-> "Err", errors |-> errors]
    /\ UNCHANGED <<first_pass, probe, prog, ri, resolver, errors, ii, interp, last_val>>

\* resolve_stmts returns Ok(()) and run_code goes on to interpret
ResolveOk ==
    /\ phase = "resolve"
    /\ ri > Len(Program(prog))
    /\ resolve_stmts_result(errors) = "Ok"
    /\ phase' = "interpret"
    /\ UNCHANGED <<first_pass, probe, prog, ri, resolver, errors, ii, interp, last_val, result>>

\* interpret, one iteration of its loop; an Err returns from run_code at once
InterpretStmt ==
    /\ phase = "interpret"
    /\ ii <= Len(Program(prog))
    /\ LET step(it) ==
               /\ interp' = it.I
               /\ IF it.brk
                  THEN /\ ii' = Len(Program(prog)) + 1
                       /\ UNCHANGED <<phase, last_val, result>>
                  ELSE IF it.I.err.error_type = "Diverged"
                  THEN /\ phase' = "cut"
                       /\ UNCHANGED <<ii, last_val, result>>
                  ELSE IF IsErr(it.I.err)
                  THEN /\ phase' = "done"
                       /\ result' = [status |-> "Err", errors |-> <<it.I.err>>]
                       /\ UNCHANGED <<ii, last_val>>
                  ELSE /\ ii' = ii + 1
                       /\ last_val' = it.last_val
                       /\ UNCHANGED <<phase, result>>
       IN  step(interpret_step(Program(prog)[ii], last_val, interp))
    /\ UNCHANGED <<first_pass, probe, prog, ri, resolver, errors>>

\* interpret returns Ok(last_val) and run_code returns Ok(())
InterpretOk ==
    /\ phase = "interpret"
    /\ ii > Len(Program(prog))
    /\ phase' = "done"
    /\ result' = [status |-> "Ok", errors |-> <<>>]
    /\ UNCHANGED <<first_pass, probe, prog, ri, resolver, errors, ii, interp, last_val>>

Next == ResolveStmt \/ ResolveErr \/ ResolveOk \/ InterpretStmt \/ InterpretOk

Spec == Init /\ [][Next]_vars

-----------------------------------------------------------------------------
(* The resolver pass made twice over the same statements and the same      *)
(* Interpreter, nothing evaluated in between: Resolver::new and            *)
(* resolve_stmts, and then again Resolver::new and resolve_stmts.  (A       *)
(* Resolver holds the only &mut Interpreter, so it is gone by the time the  *)
(* distance map of the first pass can be looked at.)                        *)

\* the first resolve_stmts has returned (Ok or Err); the second Resolver::new
ResolveAgain ==
    /\ phase = "resolve"
    /\ ri > Len(Program(prog))
    /\ first_pass' = <<interp.distances>>
    /\ resolver' = Resolver_new(interp.distances)
    /\ errors' = <<>>
    /\ ri' = 1
    /\ phase' = "resolve_again"
    /\ UNCHANGED <<probe, prog, ii, interp, last_val, result>>

\* the second resolve_stmts, one statement of its loop
ResolveStmtAgain ==
    /\ phase = "resolve_again"
    /\ ri <= Len(Program(prog))
    /\ LET collect(r) ==
               /\ resolver' = [r EXCEPT !.err = NoErr]
               /\ errors' = IF IsErr(r.err) THEN Append(errors, r.err) ELSE errors
               /\ interp' = [interp EXCEPT !.distances = r.distances]
       IN  collect(resolve_stmt(Program(prog)[ri], resolver))
    /\ ri' = ri + 1
    /\ UNCHANGED <<first_pass, probe, prog, phase, ii, last_val, result>>

\* the second resolve_stmts has returned
ResolvedTwice ==
    /\ phase = "resolve_again"
    /\ ri > Len(Program(prog))
    /\ phase' = "resolved_twice"
    /\ result' = [status |-> resolve_stmts_result(errors), errors |-> errors]
    /\ UNCHANGED <<first_pass, probe, prog, ri, resolver, errors, ii, interp, last_val>>

NextTwice == ResolveStmt \/ ResolveAgain \/ ResolveStmtAgain \/ ResolvedTwice

SpecTwice == Init /\ [][NextTwice]_vars

-----------------------------------------------------------------------------
(* Environment::ancestor called directly.  The frames form one chain, as    *)
(* Environment::from builds it: frame 1 is the globals (no enclosing frame) *)
(* and frame i + 1 encloses frame i.                                        *)

\* the longest chain of frames
MaxChain == 4

Chain(c) == [i \in 1..c |-> Environment_from(i - 1)]

InitAncestor ==
    /\ prog = [name |-> "closure", k |-> 0, j |-> 0]
    /\ phase = "probe"
    /\ ri = 1
    /\ ii = 1
    /\ errors = <<>>
    /\ interp = Interpreter_new
    /\ resolver = Resolver_new(EmptyMap)
    /\ last_val = <<>>
    /\ result = [status |-> "running", errors |-> <<>>]
    /\ first_pass = <<>>
    /\ \E c \in 1..MaxChain : \E env \in 1..c : \E distance \in 0..(MaxChain + 1) :
          probe = [heap |-> Chain(c), env |-> env, distance |-> distance, ret |-> <<>>]

\* env.ancestor(distance)
AncestorCall ==
    /\ phase = "probe"
    /\ probe.ret = <<>>
    /\ probe' = [probe EXCEPT !.ret = <<ancestor(probe.heap, probe.env, probe.distance)>>]
    /\ UNCHANGED <<first_pass, prog, phase, ri, resolver, errors, ii, interp, last_val, result>>

NextAncestor == AncestorCall

SpecAncestor == InitAncestor /\ [][NextAncestor]_vars


-----------------------------------------------------------------------------
(* Properties.                                                             *)

\* stdout of the run so far
Printed == interp.out

Terminated == phase = "done"

\* C1: for every program the resolver accepts, the distance resolved for a
\* variable reference equals the number of frames the evaluator has, when the
\* reference executes, between the current frame and the frame that holds the
\* declaration; every reference that executes has a resolved distance.  (The
\* native clock is bound by Interpreter::new, not declared by the program.)
C1_DistanceEqualsFrames ==
    \A r \in interp.refs : (r.actual # -1 /\ r.name # "clock") => r.distance = r.actual

\* C2: a closure reads a captured variable from the shared defining frame: after
\* `var x = 1; var f = || => x; x = k;` the call f() returns k, the value assigned
\* after the closure was created.
C2_ClosureSeesAssignment ==
    prog.name = "closure" =>
        /\ phase # "cut"
        /\ Terminated => result.status = "Ok" /\ Printed = <<ToString(prog.k)>>

C2_Witness ==
    /\ prog.name = "closure" /\ prog.k = 2 /\ prog.j = 0
    /\ Terminated /\ Printed = <<"2">>

\* C3: `var x = k` inside a block writes the block's frame only: inside the block
\* x reads k, the binding of x in the enclosing frame stays 1 throughout, and after
\* the block x reads 1.
C3_DeclarationWritesCurrentFrame ==
    prog.name = "shadow" =>
        /\ ii > 1 => interp.heap[2].values["x"] = Number(1)
        /\ Terminated => result.status = "Ok" /\ Printed = <<ToString(prog.k), "1">>

C3_Witness ==
    /\ prog.name = "shadow" /\ prog.k = 3 /\ prog.j = 1
    /\ Terminated /\ Printed = <<"3", "1">>
    /\ interp.heap[2].values["x"] = Number(1)

\* C4: with A.greet returning "A" and B.greet returning super.greet() + "B",
\* greet on an instance of B returns "AB"; a property A.greet sets on this is
\* read back by B.greet from the same receiver.
C4_SuperDispatch ==
    prog.name = "super" =>
        /\ phase # "cut"
        /\ Terminated => /\ result.status = "Ok"
                         /\ Printed = <<IF prog.k = 1 THEN "AsB" ELSE "AB">>

C4_Witness == prog.name = "super" /\ prog.k = 0 /\ Terminated /\ Printed = <<"AB">>

\* C5: a call of a function of k parameters with j # k arguments fails with
\* InvalidNumberOfArguments and executes no statement of the body.
C5_ArityChecked ==
    (prog.name = "arity" /\ prog.k # prog.j) =>
        /\ \A i \in DOMAIN Printed : Printed[i] # "body"
        /\ Terminated => /\ result.status = "Err"
                         /\ result.errors[1].error_type = "InvalidNumberOfArguments"
                         /\ Printed = <<>>

C5_Witness ==
    /\ prog.name = "arity" /\ prog.k = 2 /\ prog.j = 1
    /\ Terminated /\ result.status = "Err" /\ Printed = <<>>

\* C6: `while (true) { print i; if (i == k) break; i = i + 1; print "t"; }` ends in
\* the first iteration in which i = k: that iteration prints i and nothing more,
\* the body is not entered again, and the statement after the loop runs.
C6_BreakEndsLoop ==
    prog.name = "break" =>
        /\ phase # "cut"
        /\ Terminated =>
              /\ result.status = "Ok"
              /\ Len(Printed) = 2 * prog.k + 2
              /\ \A m \in 0..prog.k : Printed[2 * m + 1] = ToString(m)
              /\ \A m \in 1..prog.k : Printed[2 * m] = "t"
              /\ Printed[2 * prog.k + 2] = "end"

C6_Witness ==
    /\ prog.name = "break" /\ prog.k = 2 /\ prog.j = 1
    /\ Terminated /\ Printed = <<"0", "t", "1", "t", "2", "end">>

\* C7: when continue executes inside a while body, at any block nesting depth,
\* no remaining statement of that iteration's body executes: the iteration in
\* which i = k never reaches `print i`.
C7_ContinueSkipsRest ==
    prog.name = "continue" => \A i \in DOMAIN Printed : Printed[i] # ToString(prog.k)

\* C8: `var x = <initializer reading x>` where the scope does not define x yet
\* fails resolution with CantUseVariableInItsInitializer, at global scope and in
\* a block, a function body, a closure body and a loop body.
C8_SelfInitializerRejected ==
    (prog.name = "selfinit" /\ prog.j \in 0..5) =>
        /\ phase # "interpret"
        /\ Terminated => /\ result.status = "Err"
                         /\ result.errors[1].error_type = "CantUseVariableInItsInitializer"

C8_Witness ==
    /\ prog.name = "selfinit" /\ prog.k = 0 /\ prog.j = 3
    /\ Terminated /\ result.status = "Err"
    /\ result.errors[1].error_type = "CantUseVariableInItsInitializer"

\* C9: when resolution reported an error, evaluation never starts: nothing is
\* printed, no frame changes, and run_code returns the resolver's errors; in every
\* run the resolver has visited every statement before the first is evaluated.
C9_NoEvaluationAfterResolveError ==
    /\ errors # <<>> =>
          /\ phase \in {"resolve", "done"}
          /\ ii = 1 /\ Printed = <<>> /\ interp.heap = Interpreter_new.heap
          /\ Terminated => result = [status |-> "Err", errors |-> errors]
    /\ (phase = "interpret" \/ ii > 1 \/ Printed # <<>>) => ri > Len(Program(prog))

C9_Witness ==
    /\ prog.name = "rejected" /\ prog.k = 5 /\ prog.j = 1
    /\ Terminated /\ Len(result.errors) = 2 /\ Printed = <<>>

\* C10: runtime errors are fail-fast: interpret returns exactly the first runtime
\* error that was raised.
C10_FirstErrorReturned ==
    (Terminated /\ interp.raised # <<>>) =>
        result = [status |-> "Err", errors |-> <<interp.raised[1]>>]

\* C11: the list resolve_stmts returns holds one diagnostic for every erroneous
\* construct of the program, also when several stand in the same block, loop
\* body or function body.
C11_AllErrorsCollected ==
    (prog.name = "multi" /\ Terminated) => Len(result.errors) = prog.k

\* C12: an assignment to a name that no enclosing scope declares fails with
\* UndefinedVariable and binds the name to the assigned value in no frame.
C12_UndeclaredAssignmentFails ==
    prog.name = "assign" =>
        /\ \A f \in DOMAIN interp.heap :
              Has(interp.heap[f].values, "x") => interp.heap[f].values["x"] # Number(prog.k)
        /\ Terminated => /\ result.status = "Err"
                         /\ result.errors[1].error_type = "UndefinedVariable"
                         /\ Printed = <<"before">>

C12_Witness ==
    /\ prog.name = "assign" /\ prog.k = 2 /\ prog.j = 2
    /\ Terminated /\ result.status = "Err"
    /\ \A f \in DOMAIN interp.heap : ~Has(interp.heap[f].values, "x")

\* C13: property sets on instance a (and a new key set on b) write only the map of
\* the instance written: the properties the class declares keep their values,
\* in the class and in every instance's copy of the class, b.p stays 0, a gets
\* no key q, and a fresh instance starts from the declared values.
C13_InstanceIsolation ==
    (prog.name = "instance" /\ prog.j \in {0, 1}) =>
        /\ (Has(interp.heap[2].values, "A") /\ interp.heap[2].values["A"].t = "Class") =>
              interp.heap[2].values["A"].properties = Put(EmptyMap, "p", Number(0))
        /\ \A i \in DOMAIN interp.insts :
              interp.insts[i].class.properties = Put(EmptyMap, "p", Number(0))
        /\ Len(interp.insts) >= 2 =>
              /\ interp.insts[2].properties["p"] = Number(0)
              /\ ~Has(interp.insts[1].properties, "q")
        /\ Terminated => /\ result.status = "Ok"
                         /\ Printed = <<ToString(prog.k + prog.j), "0", "0">>

C13_Witness ==
    /\ prog.name = "instance" /\ prog.k = 2 /\ prog.j = 1
    /\ Terminated /\ Printed = <<"3", "0", "0">>
    /\ interp.insts[1].properties["p"] = Number(3)
    /\ interp.insts[2].properties = Put(Put(EmptyMap, "p", Number(0)), "q", Number(2))

\* the number of enclosing links above frame env
RECURSIVE links_above(_, _)
links_above(heap, env) ==
    IF heap[env].enclosing = 0 THEN 0 ELSE 1 + links_above(heap, heap[env].enclosing)

\* the frame n enclosing links above frame env (n <= links_above(heap, env))
RECURSIVE enclosing_n(_, _, _)
enclosing_n(heap, env, n) ==
    IF n = 0 THEN env ELSE enclosing_n(heap, heap[env].enclosing, n - 1)

\* C14: ancestor(n) returns the frame exactly n enclosing links above the
\* current frame, and panics whenever n exceeds the number of enclosing links
\* of the chain; it never returns a frame for an out-of-range n.  (Stated for
\* n >= 1, the distances the evaluator passes.)
C14_AncestorExactOrPanic ==
    (probe.ret # <<>> /\ probe.distance >= 1) =>
        IF probe.distance <= links_above(probe.heap, probe.env)
        THEN probe.ret[1] = enclosing_n(probe.heap, probe.env, probe.distance)
        ELSE probe.ret[1] = 0

C16_ReturnEndsBodyAfterCall ==
    (prog.name = "return" /\ prog.j \in {0, 1, 2} /\ Terminated) =>
        /\ result.status = "Ok"
        /\ Printed = <<ToString(prog.k)>>

\* C17: a return statement executed inside a while loop of a function body ends
\* the loop and the call: the loop body is not entered again (one "in"), the
\* call terminates also when the condition stays true (j = 4), and the call
\* evaluates to the returned value.
C17_ReturnEndsLoopAndCall ==
    (prog.name = "return" /\ prog.j \in {3, 4}) =>
        /\ phase # "cut"
        /\ Terminated => Printed = (IF prog.j = 3 THEN <<"in">> ELSE <<>>)
                                   \o <<ToString(prog.k)>>

\* C18: a return statement executed at top level is a no-op: the statements
\* after it execute, and a later call executes its body and yields its result
\* as if the return had not been there.
C18_TopLevelReturnNoOp ==
    (prog.name = "return" /\ prog.j = 5 /\ Terminated) =>
        /\ result.status = "Ok"
        /\ Printed = <<"next", "body", ToString(prog.k)>>

\* C19: whenever a while statement has finished, however it was left (its
\* condition false, a break, or a continue as the last statement executed of
\* the body), neither should_break nor should_continue is pending, and the
\* statement that follows the loop is executed.
C19_LoopConsumesSignals ==
    prog.name = "loop" =>
        /\ (phase = "interpret" /\ ii > 2) =>
              /\ ~interp.state.should_break
              /\ ~interp.state.should_continue
        /\ Terminated => Printed = <<"after">>

\* C20: a method obtained by property get is bound to the instance itself: after
\* `a.set(k)`, whose body assigns `this.p = k`, a later `a.p` (j = 2) or
\* `a.get()` (j = 3) on the same instance reads k.
C20_MethodBoundToInstance ==
    (prog.name = "instance" /\ prog.j \in {2, 3} /\ Terminated) =>
        /\ result.status = "Ok"
        /\ Printed = <<ToString(prog.k)>>

\* C21: inside a method, `super` is the superclass of the class that declares
\* the method, whatever the class of the receiver: with C : B : A, where B.m
\* calls super.m() and C does not override m, calling m on an instance of C
\* (j = 1) runs B.m once and A.m exactly once, and terminates.
C21_SuperOfDeclaringClass ==
    prog.name = "chain" =>
        /\ phase # "cut"
        /\ Terminated => /\ result.status = "Ok"
                         /\ Printed = <<"B", ToString(prog.k)>>

\* C22: a method body can refer to its own class by name: once the class
\* declaration has completed, a call of the method make, which evaluates A to
\* construct a new instance, obtains the finished class, so that
\* `print A().make().p` prints the declared value k of p.
C22_MethodSeesOwnClass ==
    (prog.name = "selfref" /\ Terminated) =>
        /\ result.status = "Ok"
        /\ Printed = <<ToString(prog.k)>>

\* C23: the resolver's inside-loop flag has, after a while body has been
\* resolved, the value it had before the loop: a break or continue in an outer
\* loop's body after a nested inner loop is accepted (j = 0, 1), and one after
\* a top-level loop is rejected (j = 2, 3).
C23_InsideLoopRestored ==
    (prog.name = "nestloop" /\ Terminated) =>
        ((\E i \in DOMAIN result.errors :
              result.errors[i].error_type = "NotAllowedOutsideLoop")
         <=> prog.j \in {2, 3})

\* C24: the resolver's current-class kind has, after a class body has been
\* resolved, the value it had before: `this` in a method of class A stays legal
\* after a class declaration nested in the method's body (j = 0), and `this`
\* outside every class is rejected (j = 1, 2).
C24_CurrentClassRestored ==
    (prog.name = "nestclass" /\ Terminated) =>
        ((\E i \in DOMAIN result.errors : result.errors[i].error_type = "CantUseThis")
         <=> prog.j \in {1, 2})

\* the operands (by their index in Operand) that to_bool takes as true
TruthyOperands == {0, 3, 5}

\* C25: logical operators never short-circuit: for `l() or r()` and
\* `l() and r()` both operands are evaluated exactly once, left then right,
\* whatever the left value; `or` yields the left value if it is truthy and
\* otherwise the right value, `and` yields the Boolean conjunction of the two
\* truthiness values.
C25_LogicalEvaluatesBoth ==
    (prog.name = "logical" /\ Terminated) =>
        LET a == prog.k
            b == prog.j \div 2
        IN  /\ result.status = "Ok"
            /\ Printed =
                 <<"l", "r",
                   IF prog.j % 2 = 0
                   THEN to_string(interp, Operand(IF a \in TruthyOperands THEN a ELSE b))
                   ELSE IF a \in TruthyOperands /\ b \in TruthyOperands
                        THEN "true" ELSE "false">>

\* `true or "s"` and `nil and "s"` have run: the left value alone decides the
\* result, and the right operand was evaluated all the same
C25_Witness ==
    /\ prog.name = "logical" /\ Terminated
    /\ \/ prog.k = 0 /\ prog.j = 10 /\ Printed = <<"l", "r", "true">>
       \/ prog.k = 2 /\ prog.j = 11 /\ Printed = <<"l", "r", "false">>

\* C26: executing a block or a function call restores the evaluator's current
\* environment: after a statement completes without a runtime error, also
\* when a block or body in it was left early through break, continue or
\* return, env is the frame it was before the statement started; between the
\* top-level statements env is the frame Interpreter::new made (frame 2).
C26_EnvRestored ==
    /\ ~interp.env_moved
    /\ (phase = "interpret" \/ (Terminated /\ result.status = "Ok")) => interp.env = 2

\* a break two blocks deep in a loop body has run, blocks have pushed frames,
\* and the run is over with env back at the top-level frame
C26_Witness ==
    /\ prog.name = "break" /\ prog.k = 1 /\ prog.j = 2
    /\ Terminated /\ result.status = "Ok"
    /\ Len(interp.heap) > 4
    /\ interp.env = 2
    /\ ~interp.env_moved

\* C27: mutually-referential functions work: when the body of f calls a
\* function g that is declared after f in the same scope (j = 0, 1), a call
\* of f made after both declarations have executed finds g and runs it:
\* `print f()` prints the k that g returns.
C27_LaterFunctionFound ==
    (prog.name = "mutual" /\ Terminated) =>
        /\ result.status = "Ok"
        /\ Printed = <<ToString(prog.k)>>

\* C28: a variable reference that no resolver scope declares is looked up at
\* run time in the global (outermost) environment: the predefined native
\* function clock can be read from top-level code (j = 0) and from nested
\* scopes (j = 1, 2), so that `print clock()` prints 100.
C28_UnresolvedReadsGlobals ==
    (prog.name = "global" /\ Terminated) =>
        /\ result.status = "Ok"
        /\ Printed = <<"100", ToString(prog.k)>>

\* C29: every variable read whose site has no entry in the distance map fails
\* with UndefinedVariable, whatever the current frame binds; this covers the
\* initializers of class properties (the read of x, j = 0 and 2).
C29_UnresolvedReadFails ==
    (prog.name = "unres" /\ \E r \in interp.refs : r.distance = -1) =>
        /\ Printed = <<>>
        /\ Terminated => /\ result.status = "Err"
                         /\ result.errors[1].error_type = "UndefinedVariable"

\* C30: in a for loop a continue executed in the user body still runs the
\* increment expression before the condition is checked again, so the counting
\* loop `for (var i = 0; i < k; i = i + 1)` whose body has a conditional
\* continue terminates: the evaluation of the loop never runs into the step
\* bound, and ends having printed every i the body prints.
C30_ForContinueTerminates ==
    prog.name = "for" =>
        /\ phase # "cut"
        /\ Terminated =>
              /\ result.status = "Ok"
              /\ Printed = CASE prog.j = 0 -> [i \in 1..prog.k |-> ToString(i - 1)]
                             [] prog.j = 1 -> [i \in 1..(prog.k - 1) |-> ToString(i)]
                             [] prog.j = 2 -> <<>>

====
